---- MODULE Spec2Model ----
(***************************************************************************)
(* A model of armicontrib-dif3d: the DIF3D and PKEDIT binary interface     *)
(* file schemas (binaryIO/dif3dFile.py, binaryIO/pkedit.py) and the        *)
(* result-application pipeline of Dif3dReader (outputReaders.py).          *)
(*                                                                         *)
(* One specification is given per part of the program.  SpecIO drives the  *)
(* two file schemas over a disk file and an in-memory container.           *)
(* SpecReader drives Dif3dReader.apply over a reactor made of blocks.      *)
(* SpecStdout drives Dif3dStdoutReader over the text of a solver log.      *)
(* SpecExec steps through Dif3dExecuter._execute (executers.py) and the    *)
(* read of the output it leaves.  SpecFiles calls the file-set functions   *)
(* (fileSetsHandler.py, executionOptions.py), SpecSettings applies the     *)
(* setting validators (settings.py) and SpecGeom calls HexGeom.makeNIP30   *)
(* (inputWriters.py).                                                      *)
(*                                                                         *)
(* The record codec (createRecord, rwInt, rwDouble, rwString,              *)
(* rwDoubleMatrix), the band partitioner (getBlockBandwidth) and the       *)
(* metadata dictionary come from the armi package and are not part of the  *)
(* source tree; they are modelled from their contract in the               *)
(* specification (sections 3, 4.1 and 4.2).                                *)
(***************************************************************************)
EXTENDS Integers, Sequences, FiniteSets, TLC

VARIABLES
    \* ---- binary interface files (SpecIO) ----
    fileKind,   \* "DIF3D" or "PKEDIT": which stream class is exercised
    disk,       \* the file on disk: a sequence of records, or NoFile
    mem,        \* the data container in memory, or NoData
    disk0,      \* the file the run started from (history)
    mem0,       \* the container the run started from (history)
    written,    \* the container handed to the last writeBinary (history)
    ioSteps,    \* the readBinary / writeBinary calls made so far
    cuts,       \* band boundaries chosen by the external partitioner
    conv,       \* outcome of the last Dif3dData.convergence access
    ioCall,     \* the last call on a Dif3dStream and how it ended
    \* ---- Dif3dReader.apply (SpecReader) ----
    pc,         \* position inside Dif3dReader.apply
    opts,       \* Dif3dOptions: real, adjoint
    regionLabels,       \* LABELS: region label table
    coarseMeshRegions,  \* GEODST: mesh cell -> region number (0: none)
    blockLabels,        \* label of each block of the core, in getBlocks() order
    outFile,    \* the DIF3D file of the run: whether it exists, its IRETRN
    effk,       \* EFFK stored on DIF3D and on the flux files
    stdoutPeak, \* region label -> peak flux, as found in the stdout log
    geomRead,   \* TRUE once _readGeometry has loaded GEODST and LABELS
    dbWritten,  \* TRUE once apply has written the detailed database
    coreKeff,   \* r.core.p.keff
    bp,         \* block parameters: block index -> record
    log,        \* runLog messages, in order
    filesRead,  \* names of the files opened so far
    err,        \* the exception that ended apply, or NoError
    \* ---- Dif3dStdoutReader (SpecStdout) ----
    soIn,       \* what the standard output was printed from (history)
    soText,     \* the text read: a header line, or the lines of a file
    soOut,      \* what the last call returned or raised
    soPc,       \* "idle", "line" or "file" before the call, "done" after
    \* ---- Dif3dExecuter._execute (SpecExec) ----
    exPc,       \* position inside _execute
    exOpts,     \* Dif3dOptions: executablePath
    exEnv,      \* what the operating system will answer to open and Popen
    outputFile, \* the file named opts.outputFile: whether it exists, its lines
    openFiles,  \* the streams that are open
    process,    \* the solver subprocess: its state, its stdin and stdout
    exLog,      \* the calls _execute has made on files and processes
    exErr,      \* the exception travelling out of _execute, or NoError
    exRet,      \* what _execute returned, or None
    \* ---- fileSetsHandler and Dif3dOptions (SpecFiles) ----
    fsOpts,     \* Dif3dOptions: real, adjoint, nodal, kernelName, ...
    fsCall,     \* the function called last
    fsOut,      \* what it returned or raised
    \* ---- settings validators (SpecSettings) ----
    cs,         \* the case settings the inspector holds
    csFixed,    \* the queries whose correction has been applied
    \* ---- HexGeom.makeNIP30 (SpecGeom) ----
    assemblies, \* the assemblies of the core, in getAssemblies() order
    hexes       \* what makeNIP30 returned or raised

ioVars == <<fileKind, disk, mem, disk0, mem0, written, ioSteps, cuts, conv,
            ioCall>>
rdVars == <<pc, opts, outFile, regionLabels, coarseMeshRegions, blockLabels, effk,
            stdoutPeak, geomRead, dbWritten, coreKeff, bp, log, filesRead,
            err>>
soVars == <<soIn, soText, soOut, soPc>>
exVars == <<exPc, exOpts, exEnv, outputFile, openFiles, process, exLog, exErr,
            exRet>>
fsVars == <<fsOpts, fsCall, fsOut>>
csVars == <<cs, csFixed>>
geVars == <<assemblies, hexes>>
auxVars == <<exVars, fsVars, csVars, geVars>>
vars == <<ioVars, rdVars, soVars, auxVars>>

(***************************************************************************)
(* Bounds of the model.                                                    *)
(***************************************************************************)
MaxIM == 2
MaxJM == 3
MaxKM == 2
MaxNJBLOK == 3
MaxOps == 3
MaxIRETRN == 4
MaxRegions == 2
MaxBlocks == 2
NumGroups == 2
MaxEntries == 3
MaxLines == 4
MaxRebalance == 1
MaxAssemblies == 2
MaxBlocksPerAssembly == 2

(***************************************************************************)
(* Generic helpers.                                                        *)
(***************************************************************************)
None == "None"
NoFile == <<>>
NoData == [kind |-> "none"]
NoError == "NoError"
READ == "rb"
WRITE == "wb"

Range(s) == {s[p] : p \in DOMAIN s}
Pos(keys, k) == CHOOSE p \in DOMAIN keys : keys[p] = k
LastPos(keys, k) ==
    CHOOSE p \in DOMAIN keys :
        keys[p] = k /\ \A q \in DOMAIN keys : keys[q] = k => q <= p

\* nuclearFileMetadata._Metadata: a dictionary whose lookup of a missing key
\* yields None instead of raising.
EmptyMeta == [k \in {} |-> None]
Get(m, k) == IF k \in DOMAIN m THEN m[k] ELSE None
Put(m, k, v) == [x \in (DOMAIN m) \cup {k} |-> IF x = k THEN v ELSE m[x]]

(***************************************************************************)
(* Record codec (section 4.1).  Every rw operation is symmetric: in read   *)
(* mode it ignores the value passed in and returns the field decoded from  *)
(* the stream; in write mode it encodes the value and returns it           *)
(* unchanged.  A string field has a fixed width: a longer value is         *)
(* truncated, a shorter one is padded with blanks.                         *)
(***************************************************************************)
FixedWidth(s, width) ==
    IF Len(s) >= width THEN SubSeq(s, 1, width)
    ELSE s \o [i \in 1..(width - Len(s)) |-> " "]

rwInt(mode, value, field) == IF mode = READ THEN field ELSE value
rwDouble(mode, value, field) == IF mode = READ THEN field ELSE value
rwString(mode, value, field) == IF mode = READ THEN field ELSE value
\* Faulty variant of rwDoubleMatrix: in write mode the caller gets back a
\* cleared matrix instead of the matrix it passed.
rwDoubleMatrix_WriteClears(mode, value, field) ==
    IF mode = READ THEN field ELSE [c \in DOMAIN value |-> 0]

rwDoubleMatrix(mode, value, field) == IF mode = READ THEN field ELSE value

(***************************************************************************)
(* The DIF3D file schema (binaryIO/dif3dFile.py).                          *)
(***************************************************************************)
LabelWidth == 28

INT_CONTROL_2D_KEYS == <<
    "IPROBT", "ISOLNT", "IXTRAP", "MINBSZ", "NOUTMX", "IRSTRT", "LIMTIM",
    "NUPMAX", "IOSAVE", "IOMEG", "INRMAX", "NUMORP", "IRETRN", "IEDF1",
    "IEDF2", "IEDF3", "IEDF4", "IEDF5", "IEDF6", "IEDF7", "IEDF8", "IEDF9",
    "IEDF10", "NOUTBQ", "IOFLUX", "NOEDIT", "NOD3ED", "ISRHED", "NSN",
    "NSWMAX", "NAPRX", "NAPRXZ", "NFMCMX", "NXYSWP", "NZSWP", "ISYMF",
    "NCMRZS", "ISEXTR", "NPNO", "NXTR", "IOMEG", "IFULL", "NVFLAG",
    "ISIMPL", "IWNHFL", "IPERT", "IHARM" >>

KEYS_3D_RECORD ==
    <<"EPS1", "EPS2", "EPS3", "EFFK", "FISMIN", "PSINRM", "POWIN", "SIGBAR",
      "EFFKQ", "EPSWP">> \o [i \in 1..20 |-> "DUM"]

NumInts1D == 25

\* for key in keys: m[key] = record.rwInt(m[key])   (also used with rwDouble,
\* which the codec treats alike).  In read mode rec is the record on the
\* stream; in write mode nothing is decoded and rec is not looked at.  The
\* loop assigns in the order of keys, so a key named at several positions
\* ends with the field of its last position; keys not named keep their value.
RwKeys(mode, m, keys, rec) ==
    [k \in (DOMAIN m) \cup Range(keys) |->
        IF k \in Range(keys)
        THEN rwInt(mode, Get(m, k),
                   IF mode = READ THEN rec[LastPos(keys, k)] ELSE None)
        ELSE m[k]]

\* The fields a write-mode pass over keys puts on the stream: writing leaves
\* the dictionary as it was, so the p-th field is the value under keys[p].
KeysWritten(m, keys) == [p \in 1..Len(keys) |-> Get(m, keys[p])]

\* A fresh container: Dif3dData.__init__ / cccc.DataContainer.__init__.
Dif3dData ==
    [kind |-> "DIF3D", metadata |-> EmptyMeta,
     intControls |-> EmptyMeta, keffData |-> EmptyMeta]

\* Each record step maps (mode, container, record on the stream) to the
\* container afterwards and the record on the stream afterwards (the record
\* read, or the record written).
Dif3d_rwFileID(mode, data, rec) ==
    LET field == IF mode = READ THEN rec[1] ELSE None
        label == rwString(mode, Get(data.metadata, "label"), field)
    IN  [data |-> [data EXCEPT !.metadata = Put(@, "label", label)],
         rec |-> IF mode = READ THEN rec
                 ELSE <<FixedWidth(label, LabelWidth)>>]

\* "Discard the 1D record for now": 25 times record.rwInt(0), result dropped.
Dif3d_rw1DRecord(mode, data, rec) ==
    [data |-> data,
     rec |-> IF mode = READ THEN rec
             ELSE [p \in 1..NumInts1D |-> rwInt(mode, 0, None)]]

Dif3d_rw2DRecord(mode, data, rec) ==
    [data |-> [data EXCEPT !.intControls =
                   RwKeys(mode, @, INT_CONTROL_2D_KEYS, rec)],
     rec |-> IF mode = READ THEN rec
             ELSE KeysWritten(data.intControls, INT_CONTROL_2D_KEYS)]

Dif3d_rw3DRecord(mode, data, rec) ==
    [data |-> [data EXCEPT !.keffData =
                   RwKeys(mode, @, KEYS_3D_RECORD, rec)],
     rec |-> IF mode = READ THEN rec
             ELSE KeysWritten(data.keffData, KEYS_3D_RECORD)]

\* Dif3dStream._rw4DRecord and _rw5DRecord: raise NotImplementedError().
Dif3d_rw4DRecord(mode) == "NotImplementedError"
Dif3d_rw5DRecord(mode) == "NotImplementedError"

\* Faulty variant of Dif3d_readWrite: the 4D record follows the 3D record.
Dif3d_readWrite_With4D(mode, data, file) ==
    LET in(n) == IF mode = READ THEN file[n] ELSE <<>>
        s0 == Dif3d_rwFileID(mode, data, in(1))
        s1 == Dif3d_rw1DRecord(mode, s0.data, in(2))
        s2 == Dif3d_rw2DRecord(mode, s1.data, in(3))
        s3 == Dif3d_rw3DRecord(mode, s2.data, in(4))
    IN  [data |-> s3.data, file |-> <<s0.rec, s1.rec, s2.rec, s3.rec>>,
         calls |-> <<"_rwFileID", "_rw1DRecord", "_rw2DRecord",
                     "_rw3DRecord", "_rw4DRecord">>,
         err |-> Dif3d_rw4DRecord(mode)]

\* Dif3dStream.readWrite: the four records in file order.  file is the file
\* being read (read mode only).  calls lists the record methods it runs
\* and err is the exception one of them raised, if any.
Dif3d_readWrite(mode, data, file) ==
    LET in(n) == IF mode = READ THEN file[n] ELSE <<>>
        s0 == Dif3d_rwFileID(mode, data, in(1))
        s1 == Dif3d_rw1DRecord(mode, s0.data, in(2))
        s2 == Dif3d_rw2DRecord(mode, s1.data, in(3))
        s3 == Dif3d_rw3DRecord(mode, s2.data, in(4))
    IN  [data |-> s3.data, file |-> <<s0.rec, s1.rec, s2.rec, s3.rec>>,
         calls |-> <<"_rwFileID", "_rw1DRecord", "_rw2DRecord",
                     "_rw3DRecord">>,
         err |-> NoError]

\* Faulty variant of Convergence: a value that is no member is taken for "no
\* iterations" instead of raising.
Convergence_Lenient(value) ==
    CASE value = 1 -> "CONVERGED"
      [] value = 2 -> "OUTERS_LIMIT_REACHED"
      [] value = 3 -> "TIME_LIMIT_REACHED"
      [] OTHER -> "NO_ITERATIONS"

\* Convergence(Enum) and the Dif3dData.convergence property: the enum lookup
\* of intControls["IRETRN"]; a value that is no member raises ValueError.
Convergence(value) ==
    CASE value = 0 -> "NO_ITERATIONS"
      [] value = 1 -> "CONVERGED"
      [] value = 2 -> "OUTERS_LIMIT_REACHED"
      [] value = 3 -> "TIME_LIMIT_REACHED"
      [] OTHER -> "ValueError"

convergence(data) == Convergence(Get(data.intControls, "IRETRN"))

keff(data) == Get(data.keffData, "EFFK")

(***************************************************************************)
(* Band partitioner: cccc.getBlockBandwidth(m, nintj, nblok), called by    *)
(* PkeditStream._rw3DRecord.  Its code is outside the source tree.  The    *)
(* specification fixes only that the bands of blocks 1..nblok are          *)
(* contiguous, do not overlap and cover 0..nintj-1 (section 3), and leaves *)
(* the remainder rule open (section 9); the model therefore lets the       *)
(* partitioner be any such partition: cuts holds its nblok+1 boundaries,   *)
(* chosen once per run, and band m is cuts[m] .. cuts[m+1]-1 (0-based,     *)
(* inclusive).                                                             *)
(***************************************************************************)
CutSets(nintj, nblok) ==
    {c \in [1..(nblok + 1) -> 0..nintj] :
        /\ c[1] = 0
        /\ c[nblok + 1] = nintj
        /\ \A m \in 1..nblok : c[m] <= c[m + 1]}

getBlockBandwidth(m, nintj, nblok) == <<cuts[m], cuts[m + 1] - 1>>

(***************************************************************************)
(* The PKEDIT file schema (binaryIO/pkedit.py).                            *)
(***************************************************************************)
PKEDIT_INT_CONTROL_2D_KEYS ==
    <<"NDIM", "NGROUP", "IM", "JM", "KM", "NOUTIT", "XKEFF", "POWIN",
      "NJBLOK">>

\* numpy arrays: a shape and the values by index tuple.
EmptyArray == [shape |-> <<0>>, v |-> <<>>]

RECURSIVE Product(_)
Product(s) == IF s = <<>> THEN 1 ELSE Head(s) * Product(Tail(s))

Size(a) == Product(a.shape)

Cells(imax, jmax, kmax) ==
    (0..(imax - 1)) \X (0..(jmax - 1)) \X (0..(kmax - 1))

Zeros(imax, jmax, kmax) ==
    [shape |-> <<imax, jmax, kmax>>,
     v |-> [c \in Cells(imax, jmax, kmax) |-> 0]]

\* A fresh container: PkeditData.__init__.
PkeditData ==
    [kind |-> "PKEDIT", metadata |-> EmptyMeta, intControls |-> EmptyMeta,
     peakPowerDensity |-> EmptyArray]

Pkedit_rwFileID(mode, data, rec) ==
    LET field == IF mode = READ THEN rec[1] ELSE None
        label == rwString(mode, Get(data.metadata, "label"), field)
    IN  [data |-> [data EXCEPT !.metadata = Put(@, "label", label)],
         rec |-> IF mode = READ THEN rec
                 ELSE <<FixedWidth(label, LabelWidth)>>]

Pkedit_rw2DRecord(mode, data, rec) ==
    [data |-> [data EXCEPT !.metadata =
                   RwKeys(mode, @, PKEDIT_INT_CONTROL_2D_KEYS, rec)],
     rec |-> IF mode = READ THEN rec
             ELSE KeysWritten(data.metadata, PKEDIT_INT_CONTROL_2D_KEYS)]

\* The body of the two loops of _rw3DRecord, for ki in range(kmax), for bi in
\* range(nblck), flattened: iteration n handles plane ki = n \div nblck and
\* block bi = n % nblck.  recs are the matrix records on the stream: those
\* to read, or those written so far.
RECURSIVE PkeditBands(_, _, _, _, _)
PkeditBands(mode, arr, recs, dims, n) ==
    IF n >= dims.kmax * dims.nblck THEN [arr |-> arr, recs |-> recs]
    ELSE
      LET ki == n \div dims.nblck
          bi == n % dims.nblck
          band == getBlockBandwidth(bi + 1, dims.jmax, dims.nblck)
          jL == band[1]
          jU == band[2]
          \* peakPowerDensity[:, jL : jU + 1, ki]
          slice == [ij \in (0..(dims.imax - 1)) \X (0..(jU - jL)) |->
                        arr.v[<<ij[1], jL + ij[2], ki>>]]
          m == rwDoubleMatrix(mode, slice,
                              IF mode = READ THEN recs[n + 1] ELSE None)
          assigned ==
              [arr EXCEPT !.v =
                  [c \in DOMAIN @ |->
                      IF c[3] = ki /\ c[2] >= jL /\ c[2] <= jU
                      THEN m[<<c[1], c[2] - jL>>] ELSE @[c]]]
      IN  PkeditBands(mode, assigned,
                      IF mode = READ THEN recs ELSE Append(recs, m),
                      dims, n + 1)

\* Faulty variant of Pkedit_rw3DRecord: the array is set to zeros whether or not it
\* holds data already (the size test is dropped).
Pkedit_rw3DRecord_AlwaysZeros(mode, data, recs) ==
    LET dims == [imax |-> Get(data.metadata, "IM"),
                 jmax |-> Get(data.metadata, "JM"),
                 kmax |-> Get(data.metadata, "KM"),
                 nblck |-> Get(data.metadata, "NJBLOK")]
        done == PkeditBands(mode, Zeros(dims.imax, dims.jmax, dims.kmax),
                            IF mode = READ THEN recs ELSE <<>>, dims, 0)
    IN  [data |-> [data EXCEPT !.peakPowerDensity = done.arr],
         recs |-> done.recs]

\* Faulty variant of Pkedit_rw3DRecord: the array is not sized from the
\* metadata; the bands are read into the array as the container holds it.
Pkedit_rw3DRecord_NoAllocation(mode, data, recs) ==
    LET dims == [imax |-> Get(data.metadata, "IM"),
                 jmax |-> Get(data.metadata, "JM"),
                 kmax |-> Get(data.metadata, "KM"),
                 nblck |-> Get(data.metadata, "NJBLOK")]
        done == PkeditBands(mode, data.peakPowerDensity,
                            IF mode = READ THEN recs ELSE <<>>, dims, 0)
    IN  [data |-> [data EXCEPT !.peakPowerDensity = done.arr],
         recs |-> done.recs]

\* Faulty variant of Pkedit_rw3DRecord: in write mode the records leave band
\* by band (band outer, plane inner) instead of plane by plane.
Pkedit_rw3DRecord_BandMajorWrite(mode, data, recs) ==
    LET dims == [imax |-> Get(data.metadata, "IM"),
                 jmax |-> Get(data.metadata, "JM"),
                 kmax |-> Get(data.metadata, "KM"),
                 nblck |-> Get(data.metadata, "NJBLOK")]
        arr0 == IF Size(data.peakPowerDensity) = 0
                THEN Zeros(dims.imax, dims.jmax, dims.kmax)
                ELSE data.peakPowerDensity
        done == PkeditBands(mode, arr0, IF mode = READ THEN recs ELSE <<>>,
                            dims, 0)
    IN  [data |-> [data EXCEPT !.peakPowerDensity = done.arr],
         recs |-> IF mode = READ THEN done.recs
                  ELSE [n \in DOMAIN done.recs |->
                           done.recs[((n - 1) % dims.kmax) * dims.nblck
                                     + ((n - 1) \div dims.kmax) + 1]]]

Pkedit_rw3DRecord(mode, data, recs) ==
    LET dims == [imax |-> Get(data.metadata, "IM"),
                 jmax |-> Get(data.metadata, "JM"),
                 kmax |-> Get(data.metadata, "KM"),
                 nblck |-> Get(data.metadata, "NJBLOK")]
        \* initialize all-zeros before reading, now that the dimensions
        \* are known
        arr0 == IF Size(data.peakPowerDensity) = 0
                THEN Zeros(dims.imax, dims.jmax, dims.kmax)
                ELSE data.peakPowerDensity
        done == PkeditBands(mode, arr0, IF mode = READ THEN recs ELSE <<>>,
                            dims, 0)
    IN  [data |-> [data EXCEPT !.peakPowerDensity = done.arr],
         recs |-> done.recs]

\* PkeditStream.readWrite: file id record, 2D record, then the banded
\* records of the 3D data.
Pkedit_readWrite(mode, data, file) ==
    LET s0 == Pkedit_rwFileID(mode, data,
                              IF mode = READ THEN file[1] ELSE <<>>)
        s2 == Pkedit_rw2DRecord(mode, s0.data,
                                IF mode = READ THEN file[2] ELSE <<>>)
        s3 == Pkedit_rw3DRecord(mode, s2.data,
                                IF mode = READ
                                THEN SubSeq(file, 3, Len(file)) ELSE <<>>)
    IN  [data |-> s3.data, file |-> <<s0.rec, s2.rec>> \o s3.recs]

(***************************************************************************)
(* Binary interface files: inputs, initial states and operations.          *)
(***************************************************************************)
\* No call has been made on a Dif3dStream.  An exception that leaves a
\* stream call is not caught: nothing follows it in the session.
NoCall == [op |-> "none", mode |-> "none", calls |-> <<>>, err |-> NoError]

\* No standard output is being parsed.
SoIdle ==
    /\ soIn = <<>>
    /\ soText = <<>>
    /\ soOut = <<>>
    /\ soPc = "idle"

\* The executer is not running and no stream is open.
NoProcess == [state |-> "none", stdin |-> None, stdout |-> None]

ExIdle ==
    /\ exPc = "idle"
    /\ exOpts = <<>>
    /\ exEnv = <<>>
    /\ outputFile = <<>>
    /\ openFiles = {}
    /\ process = NoProcess
    /\ exLog = <<>>
    /\ exErr = NoError
    /\ exRet = None

\* No file set is being worked out.
FsIdle ==
    /\ fsOpts = <<>>
    /\ fsCall = "none"
    /\ fsOut = <<>>

\* No settings are being validated.
CsIdle ==
    /\ cs = <<>>
    /\ csFixed = {}

\* No geometry is being written.
NotCalled == [err |-> "NotCalled", hexes |-> <<>>]
GeIdle ==
    /\ assemblies = <<>>
    /\ hexes = NotCalled

AuxIdle ==
    /\ ExIdle
    /\ FsIdle
    /\ CsIdle
    /\ GeIdle

\* The reader is not running.
RdIdle ==
    /\ pc = "idle"
    /\ opts = [real |-> TRUE, adjoint |-> FALSE]
    /\ outFile = <<>>
    /\ regionLabels = <<>>
    /\ coarseMeshRegions = <<>>
    /\ blockLabels = <<>>
    /\ effk = <<>>
    /\ stdoutPeak = <<>>
    /\ geomRead = FALSE
    /\ dbWritten = FALSE
    /\ coreKeff = 0
    /\ bp = <<>>
    /\ log = <<>>
    /\ filesRead = {}
    /\ err = NoError

LabelText == <<"D", "I", "F", "3", "D">>

\* A label as it stands in a file: exactly LabelWidth characters.
FileLabels ==
    {FixedWidth(<<>>, LabelWidth), FixedWidth(LabelText, LabelWidth)}

\* A label as a host may set it: also shorter or longer than the field.
HostLabels ==
    {FixedWidth(LabelText, LabelWidth), LabelText,
     [i \in 1..(LabelWidth + 1) |-> "x"]}

IretrnValues == (-1)..MaxIRETRN

\* DIF3D files: the 1D record, the two integers at the positions named
\* IOMEG, IRETRN and the first and last reserved doubles vary; every other
\* field holds a value that tells its position.
Dif3dFiles ==
    {<< <<lbl>>,
        [p \in 1..NumInts1D |-> c],
        [p \in 1..Len(INT_CONTROL_2D_KEYS) |->
            IF p = Pos(INT_CONTROL_2D_KEYS, "IOMEG") THEN a
            ELSE IF p = LastPos(INT_CONTROL_2D_KEYS, "IOMEG") THEN b
            ELSE IF p = Pos(INT_CONTROL_2D_KEYS, "IRETRN") THEN r
            ELSE 100 + p],
        [p \in 1..Len(KEYS_3D_RECORD) |->
            IF p = Pos(KEYS_3D_RECORD, "DUM") THEN d
            ELSE IF p = LastPos(KEYS_3D_RECORD, "DUM") THEN e
            ELSE 200 + p] >> :
       lbl \in FileLabels, c \in {0, 7}, a \in {0, 1}, b \in {0, 1},
       r \in IretrnValues, d \in {0, 1}, e \in {0, 1}}

\* DIF3D containers as a host may hold them: every key of the schema set.
Dif3dContainers ==
    {[kind |-> "DIF3D",
      metadata |-> [k \in {"label"} |-> lbl],
      intControls |->
          [k \in Range(INT_CONTROL_2D_KEYS) |->
              IF k = "IOMEG" THEN a
              ELSE IF k = "IRETRN" THEN r
              ELSE 100 + Pos(INT_CONTROL_2D_KEYS, k)],
      keffData |->
          [k \in Range(KEYS_3D_RECORD) |->
              IF k = "DUM" THEN d ELSE 200 + Pos(KEYS_3D_RECORD, k)]] :
       lbl \in HostLabels, a \in {0, 1}, r \in IretrnValues, d \in {0, 1}}

\* PKEDIT data: every cell holds a non-zero value that tells its index.
Pattern(c) == 1 + c[1] + 10 * c[2] + 100 * c[3]

PatternArray(imax, jmax, kmax) ==
    [shape |-> <<imax, jmax, kmax>>,
     v |-> [c \in Cells(imax, jmax, kmax) |-> Pattern(c)]]

PkeditInts(imax, jmax, kmax, nblck) ==
    <<3, 1, imax, jmax, kmax, 5, 1, 1, nblck>>

\* The PKEDIT file of the solver for the given dimensions and bands c: per
\* plane and per band one record with the band's columns.
PkeditFile(lbl, imax, jmax, kmax, nblck, c) ==
    << <<lbl>>, PkeditInts(imax, jmax, kmax, nblck) >> \o
    [n \in 1..(kmax * nblck) |->
        LET ki == (n - 1) \div nblck
            bi == (n - 1) % nblck
        IN  [ij \in (0..(imax - 1)) \X (0..(c[bi + 2] - 1 - c[bi + 1])) |->
                Pattern(<<ij[1], c[bi + 1] + ij[2], ki>>)]]

\* A PKEDIT container as a host may hold it: the array filled, or still
\* empty as PkeditData() makes it.
PkeditContainer(lbl, imax, jmax, kmax, nblck, filled) ==
    [kind |-> "PKEDIT",
     metadata |->
         [k \in {"label"} \cup Range(PKEDIT_INT_CONTROL_2D_KEYS) |->
             IF k = "label" THEN lbl
             ELSE PkeditInts(imax, jmax, kmax, nblck)[
                      Pos(PKEDIT_INT_CONTROL_2D_KEYS, k)]],
     intControls |-> EmptyMeta,
     peakPowerDensity |->
         IF filled THEN PatternArray(imax, jmax, kmax) ELSE EmptyArray]

InitDif3dFile ==
    /\ fileKind = "DIF3D"
    /\ disk \in Dif3dFiles
    /\ mem = NoData
    /\ cuts = <<>>

InitDif3dContainer ==
    /\ fileKind = "DIF3D"
    /\ disk = NoFile
    /\ mem \in Dif3dContainers
    /\ cuts = <<>>

InitPkeditFile ==
    \E imax \in 1..MaxIM, jmax \in 1..MaxJM, kmax \in 1..MaxKM,
       nblck \in 1..MaxNJBLOK :
      \E c \in CutSets(jmax, nblck), lbl \in FileLabels :
        /\ fileKind = "PKEDIT"
        /\ cuts = c
        /\ disk = PkeditFile(lbl, imax, jmax, kmax, nblck, c)
        /\ mem = NoData

InitPkeditContainer ==
    \E imax \in 1..MaxIM, jmax \in 1..MaxJM, kmax \in 1..MaxKM,
       nblck \in 1..MaxNJBLOK :
      \E c \in CutSets(jmax, nblck), lbl \in HostLabels,
         filled \in BOOLEAN :
        /\ fileKind = "PKEDIT"
        /\ cuts = c
        /\ disk = NoFile
        /\ mem = PkeditContainer(lbl, imax, jmax, kmax, nblck, filled)

InitIO ==
    /\ \/ InitDif3dFile
       \/ InitDif3dContainer
       \/ InitPkeditFile
       \/ InitPkeditContainer
    /\ disk0 = disk
    /\ mem0 = mem
    /\ written = NoData
    /\ ioSteps = <<>>
    /\ conv = "unset"
    /\ ioCall = NoCall
    /\ RdIdle
    /\ SoIdle
    /\ AuxIdle

\* Dif3dStream.readBinary(fileName): a fresh container filled by readWrite.
Dif3dReadBinary ==
    /\ ioCall.err = NoError
    /\ fileKind = "DIF3D"
    /\ disk # NoFile
    /\ Len(ioSteps) < MaxOps
    /\ LET done == Dif3d_readWrite(READ, Dif3dData, disk)
       IN  /\ mem' = done.data
           /\ ioCall' = [op |-> "readBinary", mode |-> READ,
                         calls |-> done.calls, err |-> done.err]
    /\ ioSteps' = Append(ioSteps, "read")
    /\ conv' = "unset"
    /\ UNCHANGED <<fileKind, disk, disk0, mem0, written, cuts>>
    /\ UNCHANGED <<rdVars, soVars, auxVars>>

\* Dif3dStream.writeBinary(data, fileName).
Dif3dWriteBinary ==
    /\ ioCall.err = NoError
    /\ fileKind = "DIF3D"
    /\ mem.kind = "DIF3D"
    /\ Len(ioSteps) < MaxOps
    /\ LET done == Dif3d_readWrite(WRITE, mem, NoFile)
       IN  /\ disk' = done.file
           /\ mem' = done.data
           /\ ioCall' = [op |-> "writeBinary", mode |-> WRITE,
                         calls |-> done.calls, err |-> done.err]
    /\ written' = mem
    /\ ioSteps' = Append(ioSteps, "write")
    /\ conv' = "unset"
    /\ UNCHANGED <<fileKind, disk0, mem0, cuts>>
    /\ UNCHANGED <<rdVars, soVars, auxVars>>

\* PkeditStream.readBinary(fileName).
PkeditReadBinary ==
    /\ ioCall.err = NoError
    /\ fileKind = "PKEDIT"
    /\ disk # NoFile
    /\ Len(ioSteps) < MaxOps
    /\ mem' = Pkedit_readWrite(READ, PkeditData, disk).data
    /\ ioSteps' = Append(ioSteps, "read")
    /\ conv' = "unset"
    /\ UNCHANGED <<fileKind, disk, disk0, mem0, written, cuts, ioCall>>
    /\ UNCHANGED <<rdVars, soVars, auxVars>>

\* PkeditStream.writeBinary(data, fileName).
PkeditWriteBinary ==
    /\ ioCall.err = NoError
    /\ fileKind = "PKEDIT"
    /\ mem.kind = "PKEDIT"
    /\ Len(ioSteps) < MaxOps
    /\ LET done == Pkedit_readWrite(WRITE, mem, NoFile)
       IN  /\ disk' = done.file
           /\ mem' = done.data
    /\ written' = mem
    /\ ioSteps' = Append(ioSteps, "write")
    /\ conv' = "unset"
    /\ UNCHANGED <<fileKind, disk0, mem0, cuts, ioCall>>
    /\ UNCHANGED <<rdVars, soVars, auxVars>>

\* An access to the convergence property of the container in memory; conv
\* holds its outcome until the next readBinary or writeBinary.
GetConvergence ==
    /\ ioCall.err = NoError
    /\ mem.kind = "DIF3D"
    /\ conv = "unset"
    /\ conv' = convergence(mem)
    /\ UNCHANGED <<fileKind, disk, mem, disk0, mem0, written, ioSteps, cuts, ioCall>>
    /\ UNCHANGED <<rdVars, soVars, auxVars>>

\* A direct call of Dif3dStream._rw4DRecord on a stream opened for reading
\* or for writing.
Rw4DRecord ==
    /\ ioCall.err = NoError
    /\ fileKind = "DIF3D"
    /\ \E mode \in {READ, WRITE} :
           ioCall' = [op |-> "_rw4DRecord", mode |-> mode,
                      calls |-> <<>>, err |-> Dif3d_rw4DRecord(mode)]
    /\ UNCHANGED <<fileKind, disk, mem, disk0, mem0, written, ioSteps, cuts,
                   conv>>
    /\ UNCHANGED <<rdVars, soVars, auxVars>>

\* A direct call of Dif3dStream._rw5DRecord.
Rw5DRecord ==
    /\ ioCall.err = NoError
    /\ fileKind = "DIF3D"
    /\ \E mode \in {READ, WRITE} :
           ioCall' = [op |-> "_rw5DRecord", mode |-> mode,
                      calls |-> <<>>, err |-> Dif3d_rw5DRecord(mode)]
    /\ UNCHANGED <<fileKind, disk, mem, disk0, mem0, written, ioSteps, cuts,
                   conv>>
    /\ UNCHANGED <<rdVars, soVars, auxVars>>

NextIO ==
    \/ Dif3dReadBinary
    \/ Dif3dWriteBinary
    \/ PkeditReadBinary
    \/ PkeditWriteBinary
    \/ GetConvergence
    \/ Rw4DRecord
    \/ Rw5DRecord

SpecIO == InitIO /\ [][NextIO]_vars

(***************************************************************************)
(* Claims on the binary interface files.                                   *)
(***************************************************************************)
LastStep == ioSteps[Len(ioSteps)]

WroteThenRead ==
    /\ Len(ioSteps) >= 2
    /\ ioSteps[Len(ioSteps) - 1] = "write"
    /\ LastStep = "read"

\* A container whose values fit the fields of its schema: the label fills
\* the label field exactly and the array has the shape its metadata states.
ValidContainer(c) ==
    /\ c.kind \in {"DIF3D", "PKEDIT"}
    /\ Len(Get(c.metadata, "label")) = LabelWidth
    /\ c.kind = "PKEDIT" =>
           c.peakPowerDensity.shape =
               <<Get(c.metadata, "IM"), Get(c.metadata, "JM"),
                 Get(c.metadata, "KM")>>

\* C1: round-trip identity.  For every valid container C of either schema,
\* the container that readBinary returns from the file writeBinary(C) made
\* equals C: the same metadata keys with the same values, the same
\* intControls and keffData, the same array shape and elements.
C1_RoundTrip ==
    (WroteThenRead /\ ValidContainer(written)) => mem = written

\* C1 witness: a host-built PKEDIT container with several bands and several
\* columns has been written and read back.
C1_Witness ==
    /\ WroteThenRead
    /\ ValidContainer(written)
    /\ mem0.kind = "PKEDIT"
    /\ Get(written.metadata, "NJBLOK") >= 2
    /\ Get(written.metadata, "JM") >= 2
    /\ Get(written.metadata, "IM") >= 2
    /\ Get(written.metadata, "KM") >= 2

\* C2: byte-identical replay.  Reading a DIF3D file and writing the
\* unmodified container back reproduces every field of every record of the
\* file.
C2_ByteIdenticalReplay ==
    (fileKind = "DIF3D" /\ ioSteps = <<"read", "write">>) => disk = disk0

Rat(n, d) == [num |-> n, den |-> d]

RECURSIVE SumOver(_, _)
SumOver(f, S) ==
    IF S = {} THEN 0
    ELSE LET x == CHOOSE y \in S : TRUE
         IN  f[x] + SumOver(f, S \ {x})

MaxOver(f, S) == CHOOSE m \in {f[x] : x \in S} : \A y \in S : f[y] <= m

\* The mesh of the run: IM, JM, KM of GEODST.
MeshShape == <<3, 1, 1>>
MeshCells == Cells(MeshShape[1], MeshShape[2], MeshShape[3])

LabelNames == <<"A1001A", "A2001A", "A2002A", "A3001A", "A3002A">>

\* Labels a LABELS file may hold, and labels a block may have: the latter
\* include one that no table holds.
TableLabels == {LabelNames[n] : n \in 1..MaxRegions}
AbsentLabel == "A9001Z"
BlockLabelSet == TableLabels \cup {AbsentLabel}
LabelRank(l) == Pos(LabelNames \o <<AbsentLabel>>, l)

\* PWDINT powerDensity, PKEDIT peakPowerDensity, GEODST regionVolumes,
\* RTFLUX / ATFLUX groupFluxes: fixed data that differ from cell to cell.
powerDensity == [c \in MeshCells |-> 10 * (c[1] + 1)]
peakPowerDensity == [c \in MeshCells |-> 40 + 10 * ((c[1] + 1) % 3)]
regionVolumes == [r \in 0..(Len(regionLabels) - 1) |-> 3 + 2 * r]
rtGroupFluxes ==
    [c \in MeshCells |-> [g \in 1..NumGroups |-> 100 * (c[1] + 1) + g]]
atGroupFluxes ==
    [c \in MeshCells |-> [g \in 1..NumGroups |-> 7 * (c[1] + 1) + 3 * g]]
PeakFluxOf(label) == 1000 + Pos(LabelNames \o <<AbsentLabel>>, label)

\* Block parameters before apply: values of an earlier state point.
Old == Rat(-1, 1)
OldVector == <<>>
OldParams ==
    [pdens |-> Old, ppdens |-> Old, power |-> Old, fluxPeak |-> Old,
     mgFlux |-> OldVector, flux |-> Old,
     adjMgFlux |-> OldVector, fluxAdj |-> Old]

\* The binary interface files are not exercised.
IoIdle ==
    /\ fileKind = "none"
    /\ disk = NoFile
    /\ mem = NoData
    /\ disk0 = NoFile
    /\ mem0 = NoData
    /\ written = NoData
    /\ ioSteps = <<>>
    /\ cuts = <<>>
    /\ conv = "unset"
    /\ ioCall = NoCall

\* The reader has been built on a reactor and apply has not begun.  The
\* blocks, each with a label of its own, are listed in the order of their
\* labels.  keff values are in units of 1e-5.
InitReader ==
    /\ pc = "construct"
    /\ opts \in [real : BOOLEAN, adjoint : BOOLEAN]
    /\ regionLabels \in [1..MaxRegions -> TableLabels]
    /\ coarseMeshRegions \in [MeshCells -> 0..MaxRegions]
    /\ blockLabels \in
           {s \in [1..MaxBlocks -> BlockLabelSet] :
               \A a, b \in 1..MaxBlocks :
                   a < b => LabelRank(s[a]) < LabelRank(s[b])}
    /\ \/ /\ outFile = [exists |-> TRUE, iretrn |-> 1]
          /\ effk \in {[dif3d |-> 100000, flux |-> e] :
                          e \in {100000, 100001, 100002}}
                         \cup {[dif3d |-> 0, flux |-> 100000]}
       \/ /\ outFile \in [exists : BOOLEAN, iretrn : IretrnValues \ {1}]
          /\ outFile.exists \/ outFile.iretrn = 0
          /\ effk = [dif3d |-> 100000, flux |-> 100000]
    /\ stdoutPeak \in
           {[l \in D |-> PeakFluxOf(l)] :
               D \in {BlockLabelSet, {LabelNames[1]}}}
    /\ geomRead = FALSE
    /\ dbWritten = FALSE
    /\ coreKeff = 0
    /\ bp = [b \in 1..MaxBlocks |-> OldParams]
    /\ log = <<>>
    /\ filesRead = {}
    /\ err = NoError
    /\ IoIdle
    /\ SoIdle
    /\ AuxIdle


(***************************************************************************)
(* Dif3dReader (outputReaders.py): region resolution and the block loops.  *)
(***************************************************************************)
\* The region label of a block, as written by the input writer.
getDIF3DStyleLocatorLabel(b) == blockLabels[b]

\* Faulty variant of _getMeshesInRegion: the cells are looked up by the
\* zero-based index instead of the region number.
_getMeshesInRegion_ZeroBased(b) ==
    LET regionName == getDIF3DStyleLocatorLabel(b)
        matches == {p \in DOMAIN regionLabels : regionLabels[p] = regionName}
    IN  IF matches = {}
        THEN [err |-> "IndexError", meshes |-> {}, regInd |-> -1]
        ELSE LET regInd ==
                     (CHOOSE p \in matches : \A q \in matches : p <= q) - 1
             IN  [err |-> NoError,
                  meshes |-> {c \in DOMAIN coarseMeshRegions :
                                 coarseMeshRegions[c] = regInd},
                  regInd |-> regInd]

\* np.where(regionLabels == regionName)[0][0]: the first match, zero-based;
\* IndexError when there is none.  Then the cells holding regInd + 1.
_getMeshesInRegion(b) ==
    LET regionName == getDIF3DStyleLocatorLabel(b)
        matches == {p \in DOMAIN regionLabels : regionLabels[p] = regionName}
    IN  IF matches = {}
        THEN [err |-> "IndexError", meshes |-> {}, regInd |-> -1]
        ELSE LET regInd ==
                     (CHOOSE p \in matches : \A q \in matches : p <= q) - 1
                 regNum == regInd + 1
             IN  [err |-> NoError,
                  meshes |-> {c \in DOMAIN coarseMeshRegions :
                                 coarseMeshRegions[c] = regNum},
                  regInd |-> regInd]

\* Faulty variant of PowerOfBlock: ppdens is the mean of the peaks.
PowerOfBlock_MeanOfPeaks(p, b) ==
    LET r == _getMeshesInRegion(b)
        numMeshes == Cardinality(r.meshes)
        pdens == Rat(SumOver(powerDensity, r.meshes), numMeshes)
    IN  IF r.err # NoError THEN [p |-> p, err |-> r.err]
        ELSE IF numMeshes = 0
        THEN [p |-> [p EXCEPT !.pdens = pdens], err |-> "ValueError"]
        ELSE [p |-> [p EXCEPT
                       !.pdens = pdens,
                       !.ppdens = Rat(SumOver(peakPowerDensity, r.meshes),
                                      numMeshes),
                       !.power = Rat(pdens.num * regionVolumes[r.regInd],
                                     pdens.den)],
              err |-> NoError]

\* The body of the loop of _readPower for one block: the parameters of the
\* block afterwards and the exception raised, if any.  numpy's mean of no
\* values is NaN (with a warning); its max of no values raises ValueError.
PowerOfBlock(p, b) ==
    LET r == _getMeshesInRegion(b)
        numMeshes == Cardinality(r.meshes)
        volumeCC == regionVolumes[r.regInd]
        pdens == Rat(SumOver(powerDensity, r.meshes), numMeshes)
    IN  IF r.err # NoError THEN [p |-> p, err |-> r.err]
        ELSE IF numMeshes = 0
        THEN [p |-> [p EXCEPT !.pdens = pdens], err |-> "ValueError"]
        ELSE [p |-> [p EXCEPT
                       !.pdens = pdens,
                       !.ppdens = Rat(MaxOver(peakPowerDensity, r.meshes), 1),
                       !.power = Rat(pdens.num * volumeCC, pdens.den)],
              err |-> NoError]

\* for b in self.r.core.getBlocks(): the loop stops at the first exception
\* and what it has assigned to earlier blocks stays.
RECURSIVE PowerLoop(_, _)
PowerLoop(params, b) ==
    IF b > Len(blockLabels) THEN [bp |-> params, err |-> NoError]
    ELSE LET one == PowerOfBlock(params[b], b)
             next == [params EXCEPT ![b] = one.p]
         IN  IF one.err # NoError THEN [bp |-> next, err |-> one.err]
             ELSE PowerLoop(next, b + 1)

\* Faulty variant of FluxOfBlock: the groups are pooled before the mean, so
\* every entry of the multigroup vector is the mean over cells and groups.
FluxOfBlock_PooledGroups(p, b, groupFluxes, mgParam, fluxParam) ==
    LET r == _getMeshesInRegion(b)
        numMeshes == Cardinality(r.meshes)
        ofGroup(g) == [c \in MeshCells |-> groupFluxes[c][g]]
        pooled == SumOver([g \in 1..NumGroups |->
                              SumOver(ofGroup(g), r.meshes)], 1..NumGroups)
        mg == [g \in 1..NumGroups |-> Rat(pooled, numMeshes * NumGroups)]
        total == Rat(pooled, numMeshes)
    IN  IF r.err # NoError THEN [p |-> p, err |-> r.err]
        ELSE [p |-> [x \in DOMAIN p |->
                        IF x = mgParam THEN mg
                        ELSE IF x = fluxParam THEN total
                        ELSE p[x]],
              err |-> NoError]

\* The body of the loop of _applyFluxData for one block: the mean over the
\* cells for each group, then the sum of these over the groups.
FluxOfBlock(p, b, groupFluxes, mgParam, fluxParam) ==
    LET r == _getMeshesInRegion(b)
        numMeshes == Cardinality(r.meshes)
        ofGroup(g) == [c \in MeshCells |-> groupFluxes[c][g]]
        mg == [g \in 1..NumGroups |->
                  Rat(SumOver(ofGroup(g), r.meshes), numMeshes)]
        total == Rat(SumOver([g \in 1..NumGroups |-> mg[g].num],
                             1..NumGroups), numMeshes)
    IN  IF r.err # NoError THEN [p |-> p, err |-> r.err]
        ELSE [p |-> [x \in DOMAIN p |->
                        IF x = mgParam THEN mg
                        ELSE IF x = fluxParam THEN total
                        ELSE p[x]],
              err |-> NoError]

RECURSIVE FluxLoop(_, _, _, _, _)
FluxLoop(params, b, groupFluxes, mgParam, fluxParam) ==
    IF b > Len(blockLabels) THEN [bp |-> params, err |-> NoError]
    ELSE LET one == FluxOfBlock(params[b], b, groupFluxes, mgParam, fluxParam)
             next == [params EXCEPT ![b] = one.p]
         IN  IF one.err # NoError THEN [bp |-> next, err |-> one.err]
             ELSE FluxLoop(next, b + 1, groupFluxes, mgParam, fluxParam)

\* abs(EFFK - keff) / keff > 1e-5, with keff in units of 1e-5.
KeffWarning == "DIF3D/RTFLUX/ATFLUX keff inconsistency!"
Abs(x) == IF x < 0 THEN -x ELSE x
\* The division by a keff of zero raises ZeroDivisionError.
_checkKeffs(fileEffk, keffNow) ==
    IF keffNow = 0 THEN [err |-> "ZeroDivisionError", log |-> <<>>]
    ELSE IF Abs(fileEffk - keffNow) * 100000 > keffNow
    THEN [err |-> NoError, log |-> <<KeffWarning>>]
    ELSE [err |-> NoError, log |-> <<>>]

_applyFluxData(params, keffNow, groupFluxes, mgParam, fluxParam) ==
    LET check == _checkKeffs(effk.flux, keffNow)
        loop == FluxLoop(params, 1, groupFluxes, mgParam, fluxParam)
    IN  IF check.err # NoError
        THEN [bp |-> params, err |-> check.err, log |-> <<>>]
        ELSE [bp |-> loop.bp, err |-> loop.err, log |-> check.log]

\* The loop of _readPeakFluxes: a label the table of the standard output
\* lacks raises KeyError.
RECURSIVE PeakLoop(_, _)
PeakLoop(params, b) ==
    IF b > Len(blockLabels) THEN [bp |-> params, err |-> NoError]
    ELSE LET label == getDIF3DStyleLocatorLabel(b)
         IN  IF label \notin DOMAIN stdoutPeak
             THEN [bp |-> params, err |-> "KeyError"]
             ELSE PeakLoop([params EXCEPT
                              ![b].fluxPeak = Rat(stdoutPeak[label], 1)],
                           b + 1)

\* Faulty variant of SolutionType_fromGlobalFluxOpts: options with neither
\* flag set count as a real solution.
SolutionType_RealByDefault(o) ==
    IF o.real /\ o.adjoint THEN "REAL_AND_ADJOINT"
    ELSE IF o.adjoint THEN "ADJOINT"
    ELSE "REAL"

\* SolutionType.fromGlobalFluxOpts (const.py).
SolutionType_fromGlobalFluxOpts(o) ==
    IF o.real /\ o.adjoint THEN "REAL_AND_ADJOINT"
    ELSE IF o.real THEN "REAL"
    ELSE "ADJOINT"

\* Faulty variant of AdjointOnly: the two flags are swapped.
AdjointOnly_Swapped == opts.real /\ ~opts.adjoint
AdjointOnly == opts.adjoint /\ ~opts.real

SkipPowerMsg == "Skipping power update due to purely adjoint case"
SkipPeakMsg == "Skipping peak flux update due to purely adjoint case"

(***************************************************************************)
(* Dif3dReader.apply, one action per step of its body.  A step that raises *)
(* ends apply: pc becomes "failed" and err names the exception.            *)
(***************************************************************************)
inputs == <<opts, outFile, regionLabels, coarseMeshRegions, blockLabels,
            effk, stdoutPeak>>

FoundMsg == "Found DIF3D output with:"
NotConvergedMsg == "DIF3D run did not converge."

\* Faulty variant of _check: a missing DIF3D file is passed over.
_check_PassesMissing(file) ==
    IF ~file.exists
    THEN [err |-> NoError, read |-> {}, log |-> <<>>]
    ELSE IF Convergence(file.iretrn) = "ValueError"
    THEN [err |-> "ValueError", read |-> {"DIF3D"}, log |-> <<>>]
    ELSE [err |-> NoError, read |-> {"DIF3D"},
          log |-> <<FoundMsg>>
                  \o (IF Convergence(file.iretrn) # "CONVERGED"
                      THEN <<NotConvergedMsg>> ELSE <<>>)]

\* Faulty variant of _check: a run that did not converge is refused.
_check_RefusesUnconverged(file) ==
    IF ~file.exists
    THEN [err |-> "RuntimeError", read |-> {}, log |-> <<>>]
    ELSE IF Convergence(file.iretrn) = "ValueError"
    THEN [err |-> "ValueError", read |-> {"DIF3D"}, log |-> <<>>]
    ELSE IF Convergence(file.iretrn) # "CONVERGED"
    THEN [err |-> "RuntimeError", read |-> {"DIF3D"}, log |-> <<FoundMsg>>]
    ELSE [err |-> NoError, read |-> {"DIF3D"}, log |-> <<FoundMsg>>]

\* Dif3dReader._check: RuntimeError when there is no DIF3D file; else the
\* file is read, its summary logged (the convergence property raises
\* ValueError there for an IRETRN that is no member of the enumeration) and
\* a warning logged unless the run converged.
_check(file) ==
    IF ~file.exists
    THEN [err |-> "RuntimeError", read |-> {}, log |-> <<>>]
    ELSE IF Convergence(file.iretrn) = "ValueError"
    THEN [err |-> "ValueError", read |-> {"DIF3D"}, log |-> <<>>]
    ELSE [err |-> NoError, read |-> {"DIF3D"},
          log |-> <<FoundMsg>>
                  \o (IF Convergence(file.iretrn) # "CONVERGED"
                      THEN <<NotConvergedMsg>> ELSE <<>>)]

\* Dif3dReader(options): __init__ and the _check it ends with.
Construct ==
    /\ pc = "construct"
    /\ LET checked == _check(outFile)
       IN  /\ err' = checked.err
           /\ filesRead' = filesRead \cup checked.read
           /\ log' = log \o checked.log
           /\ pc' = IF checked.err = NoError THEN "readGeometry" ELSE "failed"
    /\ UNCHANGED <<inputs, geomRead, coreKeff, bp, dbWritten, ioVars,
                   soVars, auxVars>>

\* _readGeometry: GEODST and LABELS are read into memory.
ReadGeometry ==
    /\ pc = "readGeometry"
    /\ geomRead' = TRUE
    /\ filesRead' = filesRead \cup {"GEODST", "LABELS"}
    /\ pc' = "readKeff"
    /\ UNCHANGED <<inputs, coreKeff, bp, log, err, dbWritten, ioVars,
                   soVars, auxVars>>

\* _readKeff: r.core.p.keff = self._dif3dData.keff.
ReadKeff ==
    /\ pc = "readKeff"
    /\ coreKeff' = effk.dif3d
    /\ pc' = "readPower"
    /\ UNCHANGED <<inputs, geomRead, bp, log, filesRead, err, dbWritten, ioVars,
                   soVars, auxVars>>

\* _readPower.
ReadPower ==
    /\ pc = "readPower"
    /\ IF AdjointOnly
       THEN /\ log' = Append(log, SkipPowerMsg)
            /\ pc' = "readFluxes"
            /\ UNCHANGED <<bp, filesRead, err>>
       ELSE LET loop == PowerLoop(bp, 1)
            IN  /\ log' = log \o <<"Reading power distributions from PWDINT",
                                   "Reading peak power distributions from PKEDIT">>
                /\ filesRead' = filesRead \cup {"PWDINT", "PKEDIT"}
                /\ bp' = loop.bp
                /\ err' = loop.err
                /\ pc' = IF loop.err = NoError THEN "readFluxes" ELSE "failed"
    /\ UNCHANGED <<inputs, geomRead, coreKeff, dbWritten, ioVars,
                   soVars, auxVars>>

\* _readFluxes: the real flux, then the adjoint flux, each behind
\* _checkKeffs; an exception in the real part leaves the adjoint part undone.
ReadFluxes ==
    /\ pc = "readFluxes"
    /\ LET solutionType == SolutionType_fromGlobalFluxOpts(opts)
           doReal == solutionType \in {"REAL", "REAL_AND_ADJOINT"}
           doAdjoint == solutionType \in {"ADJOINT", "REAL_AND_ADJOINT"}
           real == IF doReal
                   THEN _applyFluxData(bp, coreKeff, rtGroupFluxes,
                                       "mgFlux", "flux")
                   ELSE [bp |-> bp, err |-> NoError, log |-> <<>>]
           realLog == IF doReal
                      THEN <<"Reading real flux from RTFLUX">> \o real.log
                      ELSE <<>>
           goOn == doAdjoint /\ real.err = NoError
           adj == IF goOn
                  THEN _applyFluxData(real.bp, coreKeff, atGroupFluxes,
                                      "adjMgFlux", "fluxAdj")
                  ELSE [bp |-> real.bp, err |-> real.err, log |-> <<>>]
           adjLog == IF goOn
                     THEN <<"Reading adjoint flux from ATFLUX">> \o adj.log
                     ELSE <<>>
       IN  /\ bp' = adj.bp
           /\ err' = adj.err
           /\ log' = log \o realLog \o adjLog
           /\ filesRead' = filesRead
                           \cup (IF doReal THEN {"RTFLUX"} ELSE {})
                           \cup (IF goOn THEN {"ATFLUX"} ELSE {})
           /\ pc' = IF adj.err = NoError THEN "readPeakFluxes" ELSE "failed"
    /\ UNCHANGED <<inputs, geomRead, coreKeff, dbWritten, ioVars,
                   soVars, auxVars>>

\* Faulty variant of ReadPeakFluxes: the database step follows a failed
\* peak flux update as well.
ReadPeakFluxes_DatabaseAnyway ==
    /\ pc = "readPeakFluxes"
    /\ IF AdjointOnly
       THEN /\ log' = Append(log, SkipPeakMsg)
            /\ pc' = "writeDb"
            /\ UNCHANGED <<bp, filesRead, err>>
       ELSE LET loop == PeakLoop(bp, 1)
            IN  /\ filesRead' = filesRead \cup {"stdout"}
                /\ bp' = loop.bp
                /\ err' = loop.err
                /\ pc' = "writeDb"
                /\ UNCHANGED log
    /\ UNCHANGED <<inputs, geomRead, coreKeff, dbWritten, ioVars,
                   soVars, auxVars>>


\* _readPeakFluxes.
ReadPeakFluxes ==
    /\ pc = "readPeakFluxes"
    /\ IF AdjointOnly
       THEN /\ log' = Append(log, SkipPeakMsg)
            /\ pc' = "writeDb"
            /\ UNCHANGED <<bp, filesRead, err>>
       ELSE LET loop == PeakLoop(bp, 1)
            IN  /\ filesRead' = filesRead \cup {"stdout"}
                /\ bp' = loop.bp
                /\ err' = loop.err
                /\ pc' = IF loop.err = NoError THEN "writeDb" ELSE "failed"
                /\ UNCHANGED log
    /\ UNCHANGED <<inputs, geomRead, coreKeff, dbWritten, ioVars,
                   soVars, auxVars>>

\* The end of apply: if self.opts.detailedDb is not None, the inputs and the
\* reactor are written to the database of that name.
WriteDatabase ==
    /\ pc = "writeDb"
    /\ \E detailedDb \in {None, "dif3dMesh.h5"} :
           dbWritten' = (detailedDb # None)
    /\ pc' = "done"
    /\ UNCHANGED <<inputs, geomRead, coreKeff, bp, log, filesRead, err,
                   ioVars, soVars, auxVars>>

NextReader ==
    \/ Construct
    \/ ReadGeometry
    \/ ReadKeff
    \/ ReadPower
    \/ ReadFluxes
    \/ ReadPeakFluxes
    \/ WriteDatabase

SpecReader == InitReader /\ [][NextReader]_vars

(***************************************************************************)
(* Claims on the application of results.                                   *)
(***************************************************************************)
\* Positions of the label table that hold the label of block b.
MatchesOf(b) == {p \in DOMAIN regionLabels : regionLabels[p] = blockLabels[b]}

\* Cells assigned to region number n.
CellsOf(n) == {c \in DOMAIN coarseMeshRegions : coarseMeshRegions[c] = n}

AfterPower == pc \in {"readFluxes", "readPeakFluxes", "writeDb", "done"}

\* C6: region label lookup finds exactly one match: a block whose label is
\* absent from the label table, or appears in it more than once, makes the
\* resolve fail with a lookup error instead of returning an index set.
C6_ExactlyOneMatch ==
    geomRead =>
        \A b \in DOMAIN blockLabels :
            Cardinality(MatchesOf(b)) # 1 =>
                _getMeshesInRegion(b).err # NoError

\* The half of C6 the code keeps: an absent label raises IndexError.
C6_AbsentLabelFails ==
    geomRead =>
        \A b \in DOMAIN blockLabels :
            MatchesOf(b) = {} => _getMeshesInRegion(b).err = "IndexError"

\* C7: resolver totality.  For a table of N distinct labels and an
\* assignment array in which every region number 1..N occurs, every label
\* resolves to a non-empty cell set with regionIndex = regionNumber - 1, and
\* the union of the cell sets of all labels is exactly the set of cells with
\* a non-zero region assignment.
TableIsTotal ==
    /\ \A p, q \in DOMAIN regionLabels :
           regionLabels[p] = regionLabels[q] => p = q
    /\ \A n \in 1..Len(regionLabels) : CellsOf(n) # {}
    /\ \A c \in DOMAIN coarseMeshRegions :
           coarseMeshRegions[c] \in 0..Len(regionLabels)
    /\ Range(regionLabels) = Range(blockLabels)

C7_ResolverTotality ==
    (geomRead /\ TableIsTotal) =>
        /\ \A b \in DOMAIN blockLabels :
               LET r == _getMeshesInRegion(b)
               IN  /\ r.err = NoError
                   /\ r.meshes # {}
                   /\ regionLabels[r.regInd + 1] = blockLabels[b]
                   /\ r.meshes = CellsOf(r.regInd + 1)
        /\ UNION {_getMeshesInRegion(b).meshes : b \in DOMAIN blockLabels}
               = {c \in DOMAIN coarseMeshRegions : coarseMeshRegions[c] # 0}

C7_Witness ==
    /\ TableIsTotal
    /\ pc = "done"
    /\ err = NoError
    /\ opts.real
    /\ \E c \in DOMAIN coarseMeshRegions : coarseMeshRegions[c] = 0

\* C8: failure atomicity.  A step of apply that raises while it applies a
\* field (power, flux, peak flux) leaves that field unmodified on every
\* block: blocks processed before the failing one are not left populated.
C8_FailureAtomicity ==
    [][pc' = "failed" =>
          \A b \in DOMAIN bp :
              /\ pc = "readPower" =>
                     /\ bp'[b].pdens = bp[b].pdens
                     /\ bp'[b].ppdens = bp[b].ppdens
                     /\ bp'[b].power = bp[b].power
              /\ pc = "readFluxes" =>
                     /\ bp'[b].mgFlux = bp[b].mgFlux
                     /\ bp'[b].flux = bp[b].flux
                     /\ bp'[b].adjMgFlux = bp[b].adjMgFlux
                     /\ bp'[b].fluxAdj = bp[b].fluxAdj
              /\ pc = "readPeakFluxes" =>
                     bp'[b].fluxPeak = bp[b].fluxPeak]_vars

\* C9: with adjoint-only options (real false, adjoint true) apply skips the
\* power and the peak flux aggregation, logs each skip, leaves pdens,
\* ppdens, power and fluxPeak of every block unchanged, and reads neither
\* PWDINT, PKEDIT nor the standard output.
C9_AdjointOnlySkip ==
    (opts.adjoint /\ ~opts.real) =>
        /\ \A b \in DOMAIN bp :
               /\ bp[b].pdens = Old
               /\ bp[b].ppdens = Old
               /\ bp[b].power = Old
               /\ bp[b].fluxPeak = Old
        /\ filesRead \cap {"PWDINT", "PKEDIT", "stdout"} = {}
        /\ (geomRead /\ pc \notin {"readKeff", "readPower"}) =>
               SkipPowerMsg \in Range(log)
        /\ pc = "done" => SkipPeakMsg \in Range(log)

C9_Witness ==
    /\ opts.adjoint
    /\ ~opts.real
    /\ pc = "done"
    /\ \E b \in DOMAIN bp : bp[b].fluxAdj # Old

\* C10: power aggregation.  For every block with resolved cell set S and
\* region index r, _readPower sets pdens to the mean of powerDensity over S,
\* ppdens to the maximum of peakPowerDensity over S, and power to pdens
\* times regionVolumes[r].
C10_PowerAggregation ==
    (AfterPower /\ (opts.real \/ ~opts.adjoint)) =>
        \A b \in DOMAIN bp :
            LET r == (CHOOSE p \in MatchesOf(b) :
                          \A q \in MatchesOf(b) : p <= q) - 1
                S == CellsOf(r + 1)
                p == bp[b]
            IN  /\ S # {}
                /\ p.pdens.den # 0
                /\ p.pdens.num * Cardinality(S)
                       = SumOver(powerDensity, S) * p.pdens.den
                /\ p.ppdens.den = 1
                /\ \E c \in S : p.ppdens.num = peakPowerDensity[c]
                /\ \A c \in S : peakPowerDensity[c] <= p.ppdens.num
                /\ p.power.den # 0
                /\ p.power.num * p.pdens.den
                       = p.pdens.num * regionVolumes[r] * p.power.den

C10_Witness ==
    /\ AfterPower
    /\ opts.real
    /\ \E b \in DOMAIN bp :
           /\ Cardinality(CellsOf(Pos(regionLabels, blockLabels[b]))) >= 2
           /\ bp[b].ppdens.num * bp[b].pdens.den # bp[b].pdens.num

AfterFluxes == pc \in {"readPeakFluxes", "writeDb", "done"}

\* The cells the first matching label of block b resolves to.
ResolvedCells(b) ==
    CellsOf(CHOOSE p \in MatchesOf(b) : \A q \in MatchesOf(b) : p <= q)

\* mg is the vector of per-group means of groupFluxes over S and total is
\* the sum of that vector; a mean over no cell is not a number.
IsGroupMeans(mg, total, groupFluxes, S) ==
    /\ DOMAIN mg = 1..NumGroups
    /\ \A g \in 1..NumGroups :
           /\ mg[g].den = 0 <=> S = {}
           /\ mg[g].num * Cardinality(S)
                  = SumOver([c \in MeshCells |-> groupFluxes[c][g]], S)
                        * mg[g].den
    /\ total.den = 0 <=> S = {}
    /\ \A g \in 1..NumGroups : total.den = mg[g].den
    /\ total.num = SumOver([g \in 1..NumGroups |-> mg[g].num], 1..NumGroups)

\* C11: per-group flux aggregation.  For every block, _applyFluxData sets
\* the multigroup parameter to a vector of NGROUP entries whose g-th entry is
\* the mean of groupFluxes[i,j,k,g] over the cells of the block, each group
\* on its own, and the total flux parameter to the sum of that vector.
C11_PerGroupFlux ==
    AfterFluxes =>
        \A b \in DOMAIN bp :
            /\ opts.real =>
                   IsGroupMeans(bp[b].mgFlux, bp[b].flux, rtGroupFluxes,
                                ResolvedCells(b))
            /\ (opts.adjoint \/ ~opts.real) =>
                   IsGroupMeans(bp[b].adjMgFlux, bp[b].fluxAdj,
                                atGroupFluxes, ResolvedCells(b))

C11_Witness ==
    /\ pc = "done"
    /\ opts.real
    /\ opts.adjoint
    /\ \E b \in DOMAIN bp :
           /\ Cardinality(ResolvedCells(b)) >= 2
           /\ bp[b].mgFlux[1] # bp[b].mgFlux[2]
           /\ bp[b].adjMgFlux # bp[b].mgFlux

(***************************************************************************)
(* Dif3dStdoutReader (outputReaders.py).  A line is a sequence of          *)
(* characters; str.strip, str.split, slicing and startswith are computed   *)
(* on the characters.                                                      *)
(***************************************************************************)
IsSpace(c) == c \in {" ", "\n"}

Spaces(n) == [i \in 1..n |-> " "]

\* line[start:] and data[i : i + width], zero-based as in Python.
Slice(s, from, to) ==
    SubSeq(s, from + 1, IF to < Len(s) THEN to ELSE Len(s))

\* str.strip(): white space is dropped at both ends.
Strip(s) ==
    LET inked == {i \in DOMAIN s : ~IsSpace(s[i])}
    IN  IF inked = {} THEN <<>>
        ELSE SubSeq(s, CHOOSE i \in inked : \A j \in inked : i <= j,
                       CHOOSE i \in inked : \A j \in inked : j <= i)

\* str.split(): the maximal runs of characters that are not white space.
Split(s) ==
    LET starts == {i \in DOMAIN s :
                      ~IsSpace(s[i]) /\ (i = 1 \/ IsSpace(s[i - 1]))}
        nth(n) == CHOOSE i \in starts :
                      Cardinality({j \in starts : j < i}) = n - 1
        endOf(i) == CHOOSE j \in i..Len(s) :
                        /\ \A k \in i..j : ~IsSpace(s[k])
                        /\ (j = Len(s) \/ IsSpace(s[j + 1]))
    IN  [n \in 1..Cardinality(starts) |-> SubSeq(s, nth(n), endOf(nth(n)))]

\* str.startswith(prefix).
StartsWith(s, prefix) ==
    Len(s) >= Len(prefix) /\ SubSeq(s, 1, Len(prefix)) = prefix

\* The number of a string of digits, and the digits of a number.
DigitChar == <<"0", "1", "2", "3", "4", "5", "6", "7", "8", "9">>

RECURSIVE Digits(_)
Digits(n) ==
    IF n < 10 THEN <<DigitChar[n + 1]>>
    ELSE Digits(n \div 10) \o <<DigitChar[(n % 10) + 1]>>

RECURSIVE NumberOf(_)
NumberOf(s) ==
    IF s = <<>> THEN 0
    ELSE 10 * NumberOf(SubSeq(s, 1, Len(s) - 1))
             + (Pos(DigitChar, s[Len(s)]) - 1)

\* The columns of a REGION header line as DIF3D prints it: 15 characters of
\* heading, then per region the zone number right-justified in 5 columns,
\* two blanks and the region label.
PrefixWidth == 15
WindowWidth == 13
ZoneWidth == 5

RegionPrefix == Spaces(5) \o <<"R", "E", "G", "I", "O", "N">> \o Spaces(4)

RegionEntry(zone, label) ==
    Spaces(ZoneWidth - Len(Digits(zone))) \o Digits(zone) \o Spaces(2)
        \o label

RECURSIVE RegionEntries(_)
RegionEntries(es) ==
    IF es = <<>> THEN <<>>
    ELSE RegionEntry(es[1].zone, es[1].label) \o RegionEntries(Tail(es))

RegionLine(es) == RegionPrefix \o RegionEntries(es) \o <<"\n">>

\* Dif3dStdoutReader._getRegionLabels: the second word of each window of 13
\* characters of the stripped rest of the line; IndexError when a window
\* holds one word only.
_getRegionLabels(line) ==
    LET data == Strip(Slice(line, PrefixWidth, Len(line)))
        count == (Len(data) + WindowWidth - 1) \div WindowWidth
        words(n) == Split(Slice(data, (n - 1) * WindowWidth,
                                n * WindowWidth))
    IN  IF \E n \in 1..count : Len(words(n)) < 2
        THEN [err |-> "IndexError", labels |-> <<>>]
        ELSE [err |-> NoError, labels |-> [n \in 1..count |-> words(n)[2]]]

\* The end of a with statement over the streams named: each is closed,
\* whether the body ended normally or raised.
WithExit_LeaksOnError(files, names, raised) ==
    IF raised THEN files ELSE files \ names

WithExit(files, names, raised) == files \ names

\* The two marks of readRegionTotals and the heads of the lines it tells
\* apart.
TotalsMark ==
    <<"0">> \o Spaces(55)
        \o <<"R", "E", "G", "I", "O", "N", " ", "T", "O", "T", "A", "L", "S">>
        \o <<"\n">>
EndMark ==
    <<"0">> \o Spaces(40)
        \o <<"R", "E", "A", "C", "T", "I", "O", "N", " ",
             "I", "N", "T", "E", "G", "R", "A", "L", "S", " ", "I", "N", " ",
             "D", "I", "R", "E", "C", "T", "I", "O", "N", " ", "O", "F", " ",
             "C", "A", "L", "C", "U", "L", "A", "T", "I", "O", "N">>
RegionHead == Spaces(5) \o <<"R", "E", "G", "I", "O", "N">>
PeakFluxHead == <<" ", "P", "E", "A", "K", " ", "F", "L", "U", "X">>

\* float(val) raises ValueError for a word that is not a number; only the
\* words that zip pairs with a label are converted.
IsNumber(s) == s # <<>> /\ \A i \in DOMAIN s : s[i] \in Range(DigitChar)

BadValue(labels, words) ==
    \E n \in DOMAIN words : n <= Len(labels) /\ ~IsNumber(words[n])

\* for reg, val in zip(labels, words): peaks[reg] = float(val).
ZipInto(peaks, labels, words) ==
    LET count == IF Len(labels) < Len(words) THEN Len(labels) ELSE Len(words)
        named == {labels[n] : n \in 1..count}
        lastOf(l) == CHOOSE n \in 1..count :
                         labels[n] = l /\ \A m \in 1..count :
                                              labels[m] = l => m <= n
    IN  [l \in (DOMAIN peaks) \cup named |->
            IF l \in named THEN NumberOf(words[lastOf(l)]) ELSE peaks[l]]

\* Faulty variant of TotalsLine: the labels of the first REGION line stay
\* active for the whole section.
TotalsLine_FirstHeader(st, line) ==
    IF st.stop \/ st.err # NoError THEN st
    ELSE IF StartsWith(line, RegionHead)
    THEN IF st.active THEN st
         ELSE LET got == _getRegionLabels(line)
              IN  [st EXCEPT !.active = got.err = NoError,
                             !.labels = got.labels, !.err = got.err]
    ELSE IF StartsWith(line, PeakFluxHead)
    THEN IF ~st.active THEN [st EXCEPT !.err = "TypeError"]
         ELSE IF BadValue(st.labels, Tail(Tail(Split(line))))
         THEN [st EXCEPT !.err = "ValueError"]
         ELSE [st EXCEPT !.peaks =
                   ZipInto(@, st.labels, Tail(Tail(Split(line))))]
    ELSE IF StartsWith(line, EndMark) THEN [st EXCEPT !.stop = TRUE]
    ELSE st

\* One turn of the second loop of readRegionTotals.  st.active is FALSE
\* while activeRegionLabels is None, over which zip raises TypeError.
TotalsLine(st, line) ==
    IF st.stop \/ st.err # NoError THEN st
    ELSE IF StartsWith(line, RegionHead)
    THEN LET got == _getRegionLabels(line)
         IN  [st EXCEPT !.active = got.err = NoError,
                        !.labels = got.labels, !.err = got.err]
    ELSE IF StartsWith(line, PeakFluxHead)
    THEN IF ~st.active THEN [st EXCEPT !.err = "TypeError"]
         ELSE IF BadValue(st.labels, Tail(Tail(Split(line))))
         THEN [st EXCEPT !.err = "ValueError"]
         ELSE [st EXCEPT !.peaks =
                   ZipInto(@, st.labels, Tail(Tail(Split(line))))]
    ELSE IF StartsWith(line, EndMark) THEN [st EXCEPT !.stop = TRUE]
    ELSE st

RECURSIVE TotalsLoop(_, _)
TotalsLoop(st, lines) ==
    IF lines = <<>> THEN st
    ELSE TotalsLoop(TotalsLine(st, Head(lines)), Tail(lines))

\* Faulty variant of readRegionTotals: the second loop runs over the whole
\* text, marked or not.
readRegionTotals_WholeText(lines) ==
    LET st == TotalsLoop([active |-> FALSE, labels |-> <<>>,
                          peaks |-> <<>>, stop |-> FALSE, err |-> NoError],
                         lines)
    IN  [err |-> st.err, peaks |-> st.peaks]

\* Dif3dStdoutReader.readRegionTotals: the lines up to and including the
\* REGION TOTALS mark are passed over, then the second loop runs.
readRegionTotals(lines) ==
    LET marks == {i \in DOMAIN lines : lines[i] = TotalsMark}
        first == CHOOSE i \in marks : \A j \in marks : i <= j
        rest == IF marks = {} THEN <<>>
                ELSE SubSeq(lines, first + 1, Len(lines))
        st == TotalsLoop([active |-> FALSE, labels |-> <<>>,
                          peaks |-> <<>>, stop |-> FALSE, err |-> NoError],
                         rest)
    IN  [err |-> st.err, peaks |-> st.peaks]

(***************************************************************************)
(* Dif3dStdoutReader: the texts it is given and its two calls.             *)
(***************************************************************************)
\* Region labels as DIF3D prints them, six characters each.
LabelOf(n) == <<"A", DigitChar[n + 1], "0", "1", "6", "F">>

\* Zone numbers of one, four and five digits.
ZoneSet == {9, 9999, 10000}

HeaderLines == {<<1, 2>>, <<2, 1>>, <<3>>}
PeakLines == {<<5>>, <<5, 7>>, <<7, 5, 9>>}
Items ==
    {[kind |-> "header", labels |-> h] : h \in HeaderLines}
        \cup {[kind |-> "peak", values |-> v] : v \in PeakLines}
        \cup {[kind |-> "other"], [kind |-> "end"]}

\* A value as the solver prints it; one that does not fit its field (here:
\* a negative number) is printed as asterisks.
ValueText(v) == IF v < 0 THEN <<"*", "*", "*">> ELSE Digits(v)

RECURSIVE ValueColumns(_)
ValueColumns(vs) ==
    IF vs = <<>> THEN <<>>
    ELSE Spaces(3) \o ValueText(Head(vs)) \o ValueColumns(Tail(vs))

\* The line of the standard output an item is printed as.
LineOf(item) ==
    IF item.kind = "header"
    THEN RegionLine([n \in DOMAIN item.labels |->
                        [zone |-> n, label |-> LabelOf(item.labels[n])]])
    ELSE IF item.kind = "peak"
    THEN PeakFluxHead \o ValueColumns(item.values) \o <<"\n">>
    ELSE IF item.kind = "end" THEN EndMark \o <<"\n">>
    ELSE <<" ", "P", "O", "W", "E", "R">> \o ValueColumns(<<8>>) \o <<"\n">>

\* What may stand before the REGION TOTALS mark.
Preambles ==
    {<<>>, <<[kind |-> "header", labels |-> <<3>>],
             [kind |-> "peak", values |-> <<9>>]>>}

TextOf(in) ==
    [n \in DOMAIN in.pre |-> LineOf(in.pre[n])]
        \o (IF in.marker THEN <<TotalsMark>> ELSE <<>>)
        \o [n \in DOMAIN in.items |-> LineOf(in.items[n])]

InitLine ==
    \E n \in 0..MaxEntries : \E zs \in [1..n -> ZoneSet] :
        /\ soIn = [kind |-> "line",
                   entries |-> [i \in 1..n |->
                                   [zone |-> zs[i], label |-> LabelOf(i)]]]
        /\ soText = RegionLine(soIn.entries)
        /\ soPc = "line"

InitFile ==
    \E n \in 0..MaxLines : \E items \in [1..n -> Items] :
        \E pre \in Preambles : \E marker \in BOOLEAN :
            /\ soIn = [kind |-> "file", pre |-> pre, marker |-> marker,
                       items |-> items]
            /\ soText = TextOf(soIn)
            /\ soPc = "file"

InitStdout ==
    /\ \/ InitLine
       \/ InitFile
    /\ soOut = <<>>
    /\ IoIdle
    /\ RdIdle
    /\ AuxIdle

\* Dif3dStdoutReader._getRegionLabels(line).
GetRegionLabels ==
    /\ soPc = "line"
    /\ soOut' = _getRegionLabels(soText)
    /\ soPc' = "done"
    /\ UNCHANGED <<soIn, soText, ioVars, rdVars, auxVars>>

\* Dif3dStdoutReader.readRegionTotals().
ReadRegionTotals ==
    /\ soPc = "file"
    /\ LET got == readRegionTotals(soText)
       IN  /\ soOut' = got
           /\ openFiles' = WithExit(openFiles \cup {"stdout"}, {"stdout"},
                                    got.err # NoError)
    /\ soPc' = "done"
    /\ UNCHANGED <<soIn, soText, ioVars, rdVars, fsVars, csVars, geVars>>
    /\ UNCHANGED <<exPc, exOpts, exEnv, outputFile, process, exLog, exErr,
                   exRet>>

NextStdout ==
    \/ GetRegionLabels
    \/ ReadRegionTotals

SpecStdout == InitStdout /\ [][NextStdout]_vars

(***************************************************************************)
(* Claims on the standard output.                                          *)
(***************************************************************************)
\* C12: region label parsing.  For every REGION header line made of the 15
\* characters of heading and n entries of 13 characters (zone number, then
\* region label), _getRegionLabels returns exactly the n labels, in order,
\* whatever the digit counts of the zone numbers on the line.
C12_RegionLabelParsing ==
    (soPc = "done" /\ soIn.kind = "line") =>
        /\ soOut.err = NoError
        /\ soOut.labels = [n \in DOMAIN soIn.entries |-> soIn.entries[n].label]

\* The lines of C12 the code does parse: those whose first zone number fills
\* its five columns, or that hold no later zone number of five digits.
C12_AlignedLines ==
    (/\ soPc = "done"
     /\ soIn.kind = "line"
     /\ \/ soIn.entries = <<>>
        \/ soIn.entries[1].zone >= 10000
        \/ \A n \in DOMAIN soIn.entries : soIn.entries[n].zone < 10000) =>
        /\ soOut.err = NoError
        /\ soOut.labels = [n \in DOMAIN soIn.entries |-> soIn.entries[n].label]

\* The items of the REGION TOTALS section the reader goes through: those
\* behind the mark, up to the end mark.
Section ==
    IF ~soIn.marker THEN <<>>
    ELSE LET ends == {i \in DOMAIN soIn.items : soIn.items[i].kind = "end"}
         IN  IF ends = {} THEN soIn.items
             ELSE SubSeq(soIn.items, 1,
                         (CHOOSE i \in ends : \A j \in ends : i <= j) - 1)

\* The header most recently read before item i of the section (0: none).
HeaderOf(i) ==
    LET hs == {h \in 1..(i - 1) : Section[h].kind = "header"}
    IN  IF hs = {} THEN 0 ELSE CHOOSE h \in hs : \A g \in hs : g <= h

\* <<i, n>>: the n-th value of PEAK FLUX line i has an n-th label to go to.
Attributions ==
    {a \in (DOMAIN Section) \X (1..MaxEntries) :
        /\ Section[a[1]].kind = "peak"
        /\ HeaderOf(a[1]) # 0
        /\ a[2] <= Len(Section[a[1]].values)
        /\ a[2] <= Len(Section[HeaderOf(a[1])].labels)}

AttrLabel(a) == LabelOf(Section[HeaderOf(a[1])].labels[a[2]])
AttrValue(a) == Section[a[1]].values[a[2]]

TotalsRead == soPc = "done" /\ soIn.kind = "file" /\ soOut.err = NoError

\* C13: positional zip.  Within the REGION TOTALS section the n-th value of
\* each PEAK FLUX line goes to the n-th label of the REGION header read most
\* recently, and to no label of an earlier header: the mapping returned
\* holds exactly the labels so reached, each with the value of the last
\* PEAK FLUX line that reached it.
C13_PositionalZip ==
    TotalsRead =>
        /\ DOMAIN soOut.peaks = {AttrLabel(a) : a \in Attributions}
        /\ \A a \in Attributions :
               (\A c \in Attributions :
                    AttrLabel(c) = AttrLabel(a) => c[1] <= a[1])
                   => soOut.peaks[AttrLabel(a)] = AttrValue(a)

C13_Witness ==
    /\ TotalsRead
    /\ soIn.pre # <<>>
    /\ \E a, c \in Attributions :
           /\ HeaderOf(a[1]) # HeaderOf(c[1])
           /\ AttrLabel(a) # AttrLabel(c)
           /\ a[2] = 2

\* C14: accumulation.  When a region label stands in more than one header
\* block of the section, the mapping returned holds all the entries of that
\* label: a later entry does not overwrite an earlier one.
C14_Accumulation ==
    TotalsRead =>
        \A a, c \in Attributions :
            (AttrLabel(a) = AttrLabel(c) /\ HeaderOf(a[1]) # HeaderOf(c[1]))
                => /\ soOut.peaks[AttrLabel(a)] = AttrValue(a)
                   /\ soOut.peaks[AttrLabel(a)] = AttrValue(c)

(***************************************************************************)
(* Claims on the consistency checks of the reader.                         *)
(***************************************************************************)
\* The EFFK of the flux file is off the keff of the core by a relative
\* amount above 1e-5.
KeffOff == Abs(effk.flux - coreKeff) * 100000 > coreKeff

FluxApplied ==
    \A b \in DOMAIN bp :
        /\ opts.real => bp[b].mgFlux # OldVector /\ bp[b].flux # Old
        /\ (opts.adjoint \/ ~opts.real) =>
               bp[b].adjMgFlux # OldVector /\ bp[b].fluxAdj # Old

\* C15: eigenvalue consistency is a warning, not a failure.  When the EFFK
\* of a flux file is off the keff of the core by a relative amount above
\* 1e-5, _checkKeffs logs a warning and the flux is still applied to every
\* block; when it is off by at most 1e-5 no warning is logged; in no case
\* does the check raise.
C15_WarningNotFailure ==
    /\ err # "ZeroDivisionError"
    /\ AfterFluxes =>
           /\ KeffWarning \in Range(log) <=> KeffOff
           /\ FluxApplied

\* C15 for a keff of the core above zero.
C15_PositiveKeff ==
    (AfterFluxes /\ coreKeff > 0) =>
        /\ KeffWarning \in Range(log) <=> KeffOff
        /\ FluxApplied

(***************************************************************************)
(* Further claims on the binary interface files.                           *)
(***************************************************************************)
PkeditWasRead == fileKind = "PKEDIT" /\ ioSteps # <<>> /\ LastStep = "read"

\* The value the 2D record of the PKEDIT file on disk holds for a key.
OnDisk2D(k) == disk[2][Pos(PKEDIT_INT_CONTROL_2D_KEYS, k)]

\* C16: peak array shape and two-phase read.  After PkeditStream.readBinary
\* peakPowerDensity has the shape (IM, JM, KM) that the 2D record of the
\* same file holds: the array is sized from the decoded metadata, not
\* before it is known.
C16_PeakArrayShape ==
    PkeditWasRead =>
        /\ mem.peakPowerDensity.shape
               = <<OnDisk2D("IM"), OnDisk2D("JM"), OnDisk2D("KM")>>
        /\ DOMAIN mem.peakPowerDensity.v
               = Cells(OnDisk2D("IM"), OnDisk2D("JM"), OnDisk2D("KM"))
        /\ \A k \in {"IM", "JM", "KM", "NJBLOK"} :
               Get(mem.metadata, k) = OnDisk2D(k)

C16_Witness ==
    /\ PkeditWasRead
    /\ ioSteps = <<"read">>
    /\ OnDisk2D("NJBLOK") = 3
    /\ OnDisk2D("IM") # OnDisk2D("JM")
    /\ OnDisk2D("JM") # OnDisk2D("KM")
    /\ \E c \in DOMAIN mem.peakPowerDensity.v : mem.peakPowerDensity.v[c] # 0

(***************************************************************************)
(* Claims on the construction of the reader.                               *)
(***************************************************************************)
Untouched ==
    /\ \A b \in DOMAIN bp : bp[b] = OldParams
    /\ coreKeff = 0

\* C17: a missing output is fatal.  Constructing a Dif3dReader when no
\* DIF3D file exists raises an error before any file is decoded and before
\* any parameter of the reactor is modified, and nothing recovers from it:
\* no step of apply runs.
C17_MissingOutputFatal ==
    (~outFile.exists /\ pc # "construct") =>
        /\ pc = "failed"
        /\ err = "RuntimeError"
        /\ filesRead = {}
        /\ ~geomRead
        /\ log = <<>>
        /\ Untouched

C17_Witness ==
    /\ ~outFile.exists
    /\ pc = "failed"
    /\ err = "RuntimeError"

\* C18: non-convergence is not fatal.  When the convergence state of the
\* DIF3D file is not-started, iteration-limit or time-limit, _check logs a
\* warning and the construction succeeds, so that an apply that follows
\* still stores keff, power and flux; when the state is converged no such
\* warning is logged.
C18_NonConvergenceNotFatal ==
    (outFile.exists /\ pc # "construct") =>
        /\ outFile.iretrn \in {0, 2, 3} =>
               /\ NotConvergedMsg \in Range(log)
               /\ err \notin {"RuntimeError"}
               /\ pc = "failed" => geomRead
               /\ pc = "done" =>
                      /\ coreKeff = effk.dif3d
                      /\ FluxApplied
                      /\ opts.real =>
                             \A b \in DOMAIN bp :
                                 /\ bp[b].pdens # Old
                                 /\ bp[b].ppdens # Old
                                 /\ bp[b].power # Old
        /\ outFile.iretrn = 1 => NotConvergedMsg \notin Range(log)

C18_Witness ==
    /\ outFile.exists
    /\ outFile.iretrn = 2
    /\ pc = "done"
    /\ opts.real
    /\ coreKeff = 100000
    /\ \A b \in DOMAIN bp : bp[b].power # Old /\ bp[b].flux # Old


\* ---------------------------------------------------------------------------
\* C19 -- unsupported records.  A direct call of Dif3dStream._rw4DRecord or
\* _rw5DRecord, on a stream opened for reading or for writing, always ends in
\* NotImplementedError, which is neither a normal return nor the ValueError
\* that a malformed control integer gives.  Dif3dStream.readWrite runs
\* neither method, so readBinary and writeBinary on a DIF3D file never end in
\* that error.
UnsupportedRecords == {"_rw4DRecord", "_rw5DRecord"}

C19_UnsupportedRecords ==
    /\ ioCall.op \in UnsupportedRecords =>
           /\ ioCall.err = "NotImplementedError"
           /\ ioCall.err \notin {NoError, Convergence(MaxIRETRN)}
    /\ ioCall.op \in {"readBinary", "writeBinary"} =>
           /\ Range(ioCall.calls) \cap UnsupportedRecords = {}
           /\ ioCall.err # "NotImplementedError"

\* A 4D record was called directly in write mode after the file had been
\* read or written.
C19_Witness ==
    /\ ioCall.op = "_rw4DRecord"
    /\ ioCall.mode = WRITE
    /\ ioSteps # <<>>


\* ---------------------------------------------------------------------------
\* C20 -- codec symmetry.  Every rw operation returns the decoded field in
\* read mode, whatever value is passed, and the passed value in write mode.
\* Consequently, after Dif3dStream.writeBinary or PkeditStream.writeBinary
\* every scalar of the container (label, control integers, keff data) reads
\* as it did before the call, and every element of an array that held data
\* is unchanged.  A PKEDIT container whose peakPowerDensity is empty does
\* not stay as it was: the write gives it an all-zero array of shape
\* (IM, JM, KM).
CodecValues == {0, 1}

CodecSymmetric ==
    \A v, f \in CodecValues :
        /\ rwInt(READ, v, f) = f       /\ rwInt(WRITE, v, f) = v
        /\ rwDouble(READ, v, f) = f    /\ rwDouble(WRITE, v, f) = v
        /\ rwString(READ, <<v>>, <<f>>) = <<f>>
        /\ rwString(WRITE, <<v>>, <<f>>) = <<v>>
        /\ rwDoubleMatrix(READ, <<v, f>>, <<f, v>>) = <<f, v>>
        /\ rwDoubleMatrix(WRITE, <<v, f>>, <<f, v>>) = <<v, f>>

AfterWrite == ioSteps # <<>> /\ ioSteps[Len(ioSteps)] = "write"

ScalarFields(kind) ==
    IF kind = "DIF3D" THEN {"metadata", "intControls", "keffData"}
    ELSE {"metadata", "intControls"}

\* Every scalar of container a reads as it does in container b.
SameScalars(a, b) ==
    \A fld \in ScalarFields(a.kind) :
        \A k \in (DOMAIN a[fld]) \cup (DOMAIN b[fld]) :
            Get(a[fld], k) = Get(b[fld], k)

SameArray(x, y) == x.shape = y.shape /\ x.v = y.v

SectionOnly == [soIn EXCEPT !.pre = <<>>, !.items = Section]

\* C23: section bounding.  readRegionTotals gives for a text what it gives
\* for the text cut down to the lines strictly between the first REGION
\* TOTALS mark and the first following end mark: REGION and PEAK FLUX lines
\* before the mark or behind the end mark change neither the mapping
\* returned nor the outcome, and a text without the mark gives an empty
\* mapping.
C23_SectionBounding ==
    (soPc = "done" /\ soIn.kind = "file") =>
        /\ soOut = readRegionTotals(TextOf(SectionOnly))
        /\ ~soIn.marker => soOut = [err |-> NoError, peaks |-> <<>>]

\* A text was read that has a REGION and a PEAK FLUX line before the mark,
\* a PEAK FLUX line behind the end mark, and values inside the section.
C23_Witness ==
    /\ soPc = "done"
    /\ soIn.kind = "file"
    /\ soIn.marker
    /\ soIn.pre # <<>>
    /\ \E e, i \in DOMAIN soIn.items :
           /\ soIn.items[e].kind = "end"
           /\ e < i
           /\ soIn.items[i].kind = "peak"
    /\ soOut.err = NoError
    /\ soOut.peaks # <<>>


(***************************************************************************)
(* Further claims on the PKEDIT records.                                   *)
(***************************************************************************)
PkeditDone == fileKind = "PKEDIT" /\ ioSteps # <<>>

\* The plane and the band of the n-th matrix record (n from 1), and the
\* columns jL..jU of that band.
PlaneOf(n) == (n - 1) \div Get(mem.metadata, "NJBLOK")
BandOf(n) == (n - 1) % Get(mem.metadata, "NJBLOK")
ColumnsOf(n) ==
    getBlockBandwidth(BandOf(n) + 1, Get(mem.metadata, "JM"),
                      Get(mem.metadata, "NJBLOK"))

\* The matrix records of the file that hold cell c of the array.
RecordsOf(c) ==
    {n \in 1..(Len(disk) - 2) :
        /\ PlaneOf(n) = c[3]
        /\ ColumnsOf(n)[1] <= c[2]
        /\ c[2] <= ColumnsOf(n)[2]}

\* C24: PKEDIT record sequence.  Whether the file was read or written, it
\* holds exactly KM x NJBLOK matrix records behind the 2D record, ordered by
\* plane k (outer) and band (inner); the record of plane k and band b holds
\* (jU - jL + 1) x IM values, those of columns jL..jU of plane k of the
\* array; and every cell (i, j, k) of the array belongs to exactly one
\* record.
C24_RecordSequence ==
    PkeditDone =>
        /\ Len(disk) - 2
               = Get(mem.metadata, "KM") * Get(mem.metadata, "NJBLOK")
        /\ \A n \in 1..(Len(disk) - 2) :
               /\ DOMAIN disk[2 + n]
                      = (0..(Get(mem.metadata, "IM") - 1))
                            \X (0..(ColumnsOf(n)[2] - ColumnsOf(n)[1]))
               /\ \A ij \in DOMAIN disk[2 + n] :
                      disk[2 + n][ij]
                          = mem.peakPowerDensity.v[
                                <<ij[1], ColumnsOf(n)[1] + ij[2], PlaneOf(n)>>]
        /\ \A c \in DOMAIN mem.peakPowerDensity.v :
               Cardinality(RecordsOf(c)) = 1

\* A file of several planes and several bands of unequal widths was read.
C24_Witness ==
    /\ PkeditDone
    /\ ioSteps = <<"read">>
    /\ Get(mem.metadata, "KM") >= 2
    /\ Get(mem.metadata, "NJBLOK") >= 2
    /\ Get(mem.metadata, "IM") >= 2
    /\ \E n, m \in 1..(Len(disk) - 2) :
           /\ PlaneOf(n) = PlaneOf(m)
           /\ Cardinality(DOMAIN disk[2 + n]) > Cardinality(DOMAIN disk[2 + m])
           /\ disk[2 + m] # <<>>


(***************************************************************************)
(* Claims on the order of the steps of apply.                              *)
(***************************************************************************)
\* Some block has been resolved to mesh cells: a file that is read per
\* block was opened, or a parameter of a block was set.
BlocksTouched ==
    \/ filesRead \cap {"PWDINT", "PKEDIT", "RTFLUX", "ATFLUX", "stdout"} # {}
    \/ \E b \in DOMAIN bp : bp[b] # OldParams

FluxFileChecked == filesRead \cap {"RTFLUX", "ATFLUX"} # {}

\* C25: order inside apply.  GEODST and LABELS are read before any block is
\* resolved; the keff of the core is the EFFK of the DIF3D file by the time
\* a flux file is checked, so the warning of _checkKeffs tells how far the
\* flux file is from the DIF3D file; and the database is written only once
\* keff, power, fluxes and peak fluxes are all applied without error.
C25_ApplyOrder ==
    /\ BlocksTouched =>
           geomRead /\ {"GEODST", "LABELS"} \subseteq filesRead
    /\ FluxFileChecked =>
           /\ "DIF3D" \in filesRead
           /\ coreKeff = effk.dif3d
    /\ (AfterFluxes /\ effk.dif3d > 0) =>
           (KeffWarning \in Range(log)
               <=> Abs(effk.flux - effk.dif3d) * 100000 > effk.dif3d)
    /\ dbWritten =>
           /\ pc = "done"
           /\ err = NoError
           /\ coreKeff = effk.dif3d
           /\ FluxApplied
           /\ ~AdjointOnly =>
                  \A b \in DOMAIN bp :
                      /\ bp[b].pdens # Old
                      /\ bp[b].ppdens # Old
                      /\ bp[b].power # Old
                      /\ bp[b].fluxPeak # Old

\* The database was written after a real and adjoint run whose flux files
\* were off the keff of the DIF3D file.
C25_Witness ==
    /\ dbWritten
    /\ opts.real
    /\ opts.adjoint
    /\ KeffWarning \in Range(log)


(***************************************************************************)
(* Claims on the solution type.                                            *)
(***************************************************************************)
ApplyDone == pc = "done" /\ err = NoError

RealFluxApplied ==
    /\ "RTFLUX" \in filesRead
    /\ \A b \in DOMAIN bp : bp[b].mgFlux # OldVector /\ bp[b].flux # Old

AdjointFluxApplied ==
    /\ "ATFLUX" \in filesRead
    /\ \A b \in DOMAIN bp : bp[b].adjMgFlux # OldVector /\ bp[b].fluxAdj # Old

PowerAndPeakApplied ==
    /\ {"PWDINT", "PKEDIT", "stdout"} \subseteq filesRead
    /\ \A b \in DOMAIN bp :
           /\ bp[b].pdens # Old
           /\ bp[b].ppdens # Old
           /\ bp[b].power # Old
           /\ bp[b].fluxPeak # Old

\* C26 as stated: for every combination of real and adjoint, the real flux,
\* the power and the peak flux are read and applied if and only if real is
\* set, and the adjoint flux if and only if adjoint is set.
C26_FlagsDecide ==
    ApplyDone =>
        /\ RealFluxApplied <=> opts.real
        /\ PowerAndPeakApplied <=> opts.real
        /\ AdjointFluxApplied <=> opts.adjoint

\* C26 as amended: the real flux is read and applied if and only if real is
\* set; the adjoint flux if and only if adjoint is set or real is not set;
\* the power and the peak flux if and only if real is set or adjoint is not
\* set.  With neither flag set the solution type is ADJOINT, and ATFLUX,
\* the power and the peak flux are all read and applied.  No file of a part
\* that is left out is opened at any point of apply.
C26_SolutionTypeConsistency ==
    /\ "RTFLUX" \in filesRead => opts.real
    /\ "ATFLUX" \in filesRead => (opts.adjoint \/ ~opts.real)
    /\ filesRead \cap {"PWDINT", "PKEDIT", "stdout"} # {} =>
           (opts.real \/ ~opts.adjoint)
    /\ ApplyDone =>
           /\ RealFluxApplied <=> opts.real
           /\ AdjointFluxApplied <=> (opts.adjoint \/ ~opts.real)
           /\ PowerAndPeakApplied <=> (opts.real \/ ~opts.adjoint)

\* apply has finished for options with neither flag set.
C26_Witness ==
    /\ ApplyDone
    /\ ~opts.real
    /\ ~opts.adjoint
    /\ AdjointFluxApplied
    /\ PowerAndPeakApplied


(***************************************************************************)
(* Dif3dExecuter._execute (executers.py): the statements of the method as  *)
(* steps, so that every way out of the with block is a path of the model.  *)
(* The base class call GlobalFluxExecuter._execute(self) and the           *)
(* codeTiming.timed wrapper belong to the armi package and are taken to    *)
(* touch neither files nor processes.                                      *)
(***************************************************************************)
ExecutablePaths == {None, "dif3d"}

\* The output file a previous run left behind.
OldOutput == [exists |-> TRUE, text |-> <<EndMark \o <<"\n">> >>]
NoOutput == [exists |-> FALSE, text |-> <<>>]

\* What the solver may print: a section with values, a PEAK FLUX line with
\* no REGION line before it, a value printed as asterisks, no section.
SolverOutputs ==
    {[kind |-> "file", pre |-> <<>>, marker |-> TRUE,
      items |-> <<[kind |-> "header", labels |-> <<1, 2>>],
                  [kind |-> "peak", values |-> <<5, 7>>],
                  [kind |-> "end"]>>],
     [kind |-> "file", pre |-> <<>>, marker |-> TRUE,
      items |-> <<[kind |-> "peak", values |-> <<5>>]>>],
     [kind |-> "file", pre |-> <<>>, marker |-> TRUE,
      items |-> <<[kind |-> "header", labels |-> <<1, 2>>],
                  [kind |-> "peak", values |-> <<5, -1>>]>>],
     [kind |-> "file", pre |-> <<>>, marker |-> FALSE, items |-> <<>>]}

InitExec ==
    /\ exPc = "check"
    /\ exOpts \in [executablePath : ExecutablePaths]
    /\ exEnv \in [inputExists : BOOLEAN, outputWritable : BOOLEAN,
                   runnable : BOOLEAN, outputBefore : {NoOutput, OldOutput}]
    /\ outputFile = exEnv.outputBefore
    /\ openFiles = {}
    /\ process = NoProcess
    /\ exLog = <<>>
    /\ exErr = NoError
    /\ exRet = None
    /\ IoIdle
    /\ RdIdle
    /\ SoIdle
    /\ FsIdle
    /\ CsIdle
    /\ GeIdle

\* Faulty variant of CheckExecutable: the path is not tested.
CheckExecutable_NoTest ==
    /\ exPc = "check"
    /\ exPc' = "openInput"
    /\ UNCHANGED <<exOpts, exEnv, outputFile, openFiles, process, exLog,
                   exErr, exRet>>
    /\ UNCHANGED <<ioVars, rdVars, soVars, fsVars, csVars, geVars>>

\* if self.options.executablePath is None: raise ValueError(...)
CheckExecutable ==
    /\ exPc = "check"
    /\ IF exOpts.executablePath = None
       THEN exErr' = "ValueError" /\ exPc' = "raised"
       ELSE exErr' = exErr /\ exPc' = "openInput"
    /\ UNCHANGED <<exOpts, exEnv, outputFile, openFiles, process, exLog,
                   exRet>>
    /\ UNCHANGED <<ioVars, rdVars, soVars, fsVars, csVars, geVars>>

\* open(self.options.inputFile): the first item of the with statement.  A
\* missing file raises before anything is open.
OpenInput ==
    /\ exPc = "openInput"
    /\ IF exEnv.inputExists
       THEN /\ openFiles' = openFiles \cup {"input"}
            /\ exLog' = Append(exLog, "open input")
            /\ exPc' = "openOutput"
            /\ exErr' = exErr
       ELSE /\ exErr' = "FileNotFoundError"
            /\ exPc' = "raised"
            /\ UNCHANGED <<openFiles, exLog>>
    /\ UNCHANGED <<exOpts, exEnv, outputFile, process, exRet>>
    /\ UNCHANGED <<ioVars, rdVars, soVars, fsVars, csVars, geVars>>

\* open(self.options.outputFile, "w"): the second item.  The file is
\* created or truncated; if it cannot be, the with statement is left with
\* the input stream to close.
OpenOutput ==
    /\ exPc = "openOutput"
    /\ IF exEnv.outputWritable
       THEN /\ outputFile' = [exists |-> TRUE, text |-> <<>>]
            /\ openFiles' = openFiles \cup {"output"}
            /\ exLog' = Append(exLog, "open output")
            /\ exPc' = "popen"
            /\ exErr' = exErr
       ELSE /\ exErr' = "PermissionError"
            /\ exPc' = "exit"
            /\ UNCHANGED <<outputFile, openFiles, exLog>>
    /\ UNCHANGED <<exOpts, exEnv, process, exRet>>
    /\ UNCHANGED <<ioVars, rdVars, soVars, fsVars, csVars, geVars>>

\* subprocess.Popen(executablePath, stdin=inpF, stdout=outF, ...).
Popen ==
    /\ exPc = "popen"
    /\ IF exEnv.runnable
       THEN /\ process' = [state |-> "running", stdin |-> "input",
                           stdout |-> "output"]
            /\ exLog' = Append(exLog, "Popen")
            /\ exPc' = "communicate"
            /\ exErr' = exErr
       ELSE /\ exErr' = "OSError"
            /\ exPc' = "exit"
            /\ UNCHANGED <<process, exLog>>
    /\ UNCHANGED <<exOpts, exEnv, outputFile, openFiles, exRet>>
    /\ UNCHANGED <<ioVars, rdVars, soVars, fsVars, csVars, geVars>>

\* process.communicate(): waits until the solver has ended; by then the
\* solver has printed its output to the output file.
Communicate ==
    /\ exPc = "communicate"
    /\ \E printed \in SolverOutputs :
           /\ outputFile' = [exists |-> TRUE, text |-> TextOf(printed)]
           /\ soIn' = printed
           /\ soText' = TextOf(printed)
    /\ process' = [process EXCEPT !.state = "finished"]
    /\ exLog' = Append(exLog, "communicate")
    /\ exPc' = "exit"
    /\ UNCHANGED <<exOpts, exEnv, openFiles, exErr, exRet, soOut, soPc>>
    /\ UNCHANGED <<ioVars, rdVars, fsVars, csVars, geVars>>

\* The end of the with statement, then `return True` or the exception on
\* its way out.  After a return the output file is there for
\* Dif3dStdoutReader(opts.outputFile).
ExitWith ==
    /\ exPc = "exit"
    /\ openFiles' = WithExit(openFiles, {"input", "output"}, exErr # NoError)
    /\ exLog' = Append(exLog, "exit with")
    /\ IF exErr = NoError
       THEN exRet' = "True" /\ exPc' = "returned" /\ soPc' = "file"
       ELSE exRet' = exRet /\ exPc' = "raised" /\ soPc' = soPc
    /\ UNCHANGED <<exOpts, exEnv, outputFile, process, exErr, soIn, soText,
                   soOut>>
    /\ UNCHANGED <<ioVars, rdVars, fsVars, csVars, geVars>>

NextExec ==
    \/ CheckExecutable
    \/ OpenInput
    \/ OpenOutput
    \/ Popen
    \/ Communicate
    \/ ExitWith
    \/ ReadRegionTotals

SpecExec == InitExec /\ [][NextExec]_vars

(***************************************************************************)
(* Claims on the executer.                                                 *)
(***************************************************************************)
ExecOver == exPc \in {"returned", "raised"}

\* C21: scoped streams.  Once _execute has returned or raised, neither the
\* input deck nor the output file is open, whichever call raised (open of
\* the output file, Popen) or none; once readRegionTotals has returned or
\* raised (PEAK FLUX before any REGION line, a value that is not a number)
\* the standard output file is closed; and no stream other than these is
\* ever opened.
C21_ScopedStreams ==
    /\ openFiles \subseteq {"input", "output"}
    /\ ExecOver => openFiles = {}
    /\ soPc = "done" => "stdout" \notin openFiles

\* The solver ran and returned, and reading its output then raised.
C21_Witness ==
    /\ exRet = "True"
    /\ soPc = "done"
    /\ soOut.err \in {"TypeError", "ValueError"}
    /\ openFiles = {}

\* C27: the executable check precedes all side effects.  With
\* executablePath None, _execute raises ValueError having opened no file,
\* left the output file as it was (not created, not truncated) and started
\* no process.  With the path set, a process that is started has the input
\* file as stdin and the output file as stdout, both opened before it, and
\* True is returned only once the process has finished.
C27_CheckFirst ==
    /\ (exOpts.executablePath = None /\ exPc # "check") =>
           /\ exPc = "raised"
           /\ exErr = "ValueError"
           /\ exLog = <<>>
           /\ openFiles = {}
           /\ process = NoProcess
           /\ outputFile = exEnv.outputBefore
    /\ exErr = "ValueError" => exOpts.executablePath = None
    /\ process.state # "none" =>
           /\ exOpts.executablePath # None
           /\ process.stdin = "input"
           /\ process.stdout = "output"
           /\ SubSeq(exLog, 1, 3) = <<"open input", "open output", "Popen">>
    /\ exRet = "True" =>
           /\ process.state = "finished"
           /\ exPc = "returned"
           /\ exErr = NoError
    /\ exRet \in {None, "True"}

\* The check raised while an output file of an earlier run was there.
C27_Witness ==
    /\ exOpts.executablePath = None
    /\ exPc = "raised"
    /\ exEnv.outputBefore = OldOutput
    /\ exEnv.inputExists


(***************************************************************************)
(* fileSetsHandler.py and Dif3dOptions._specifyOutputFilesToRetrieve.      *)
(* A dict is a sequence of <<key, value>> pairs in insertion order.  A     *)
(* string that is only ever tested with `in` (energyDepoCalcMethodStep,    *)
(* neutronicsOutputsToSave) is the set of the tested words it contains,    *)
(* or None.                                                                *)
(***************************************************************************)
GAMSOR_GAMMA_SRCGEN == "-step_1"
GAMSOR_GAMMA_FLUX == "-step_2"
GAMSOR_POWERCALC == "-step_3"
GAMMA_ARMI == "ARMI"

\* armi.physics.neutronics: the words of the neutronicsOutputsToSave setting.
ALL == "All"
RESTARTFILES == "Restart files"
FLUXFILES == "Flux files"
INPUTOUTPUT == "Input/Output"

DepoWords == {GAMSOR_GAMMA_SRCGEN, GAMSOR_GAMMA_FLUX, GAMSOR_POWERCALC, GAMMA_ARMI}
OutputWords == {ALL, RESTARTFILES, FLUXFILES, INPUTOUTPUT}
KernelNames == {"DIF3D", "DIF3D-Nodal", "DIF3D-FD", "VARIANT"}

NoneText == [isNone |-> TRUE, words |-> {}]
Texts(words) == {NoneText} \cup {[isNone |-> FALSE, words |-> w] : w \in SUBSET words}

\* `text and word in text`: false for None and for the empty string.
AndIn(word, text) == ~text.isNone /\ word \in text.words

DictKeys(d) == {d[i][1] : i \in DOMAIN d}
DictGet(d, key) == d[CHOOSE i \in DOMAIN d : d[i][1] = key][2]
DictSet(d, key, value) ==
    IF key \in DictKeys(d)
    THEN [i \in DOMAIN d |-> IF d[i][1] = key THEN <<key, value>> ELSE d[i]]
    ELSE Append(d, <<key, value>>)
RECURSIVE DictUpdate(_, _)
DictUpdate(d, other) ==
    IF other = <<>> THEN d
    ELSE DictUpdate(DictSet(d, Head(other)[1], Head(other)[2]), Tail(other))
Same(name) == <<name, name>>

specifyGamsorPowerFiles == <<Same("NPDINT"), Same("GPDINT"), Same("PWDINT")>>

specifyFixedSourceFiles(options) ==
    IF options.kernelName # "VARIANT" THEN <<Same("FIXSRC")>> ELSE <<Same("VARSRC")>>

specifyGamsorOtherFiles(options) ==
    LET depo == options.energyDepoCalcMethodStep
    IN  IF AndIn(GAMSOR_GAMMA_SRCGEN, depo) THEN DictUpdate(<<>>, specifyFixedSourceFiles(options))
        ELSE IF AndIn(GAMSOR_GAMMA_FLUX, depo) THEN <<Same("ANIP3")>>
        ELSE IF AndIn(GAMSOR_POWERCALC, depo)
             THEN <<Same("RTFLUX"), Same("GTFLUX"), Same("ANIP3")>>
        ELSE <<>>

specifyRegionTotalFluxFiles(options) ==
    LET depo == options.energyDepoCalcMethodStep
        destinationName == IF AndIn(GAMMA_ARMI, depo) \/ AndIn(GAMSOR_GAMMA_FLUX, depo)
                           THEN "GTFLUX" ELSE "RTFLUX"
        forReal == IF options.real
                   THEN <<Same("RZFLUX"), <<"RTFLUX", destinationName>>, Same("PWDINT")>>
                   ELSE <<>>
    IN  IF options.adjoint THEN DictSet(forReal, "ATFLUX", "ATFLUX") ELSE forReal

specifyGeomFiles(options) == <<Same("GEODST"), Same("LABELS"), Same("DIF3D")>>

specifyNodalFluxFiles(options) ==
    LET depo == options.energyDepoCalcMethodStep
        destinationName == IF AndIn(GAMMA_ARMI, depo) \/ AndIn(GAMSOR_GAMMA_FLUX, depo)
                           THEN "GHFLUX" ELSE "NHFLUX"
        forReal == IF options.real THEN <<<<"NHFLUX", destinationName>>>> ELSE <<>>
    IN  IF options.adjoint THEN DictSet(forReal, "NAFLUX", "NAFLUX") ELSE forReal

specifyFluxFiles(options) ==
    LET neutronFluxFiles == specifyRegionTotalFluxFiles(options)
    IN  IF options.nodal
        THEN DictUpdate(neutronFluxFiles, specifyNodalFluxFiles(options))
        ELSE neutronFluxFiles

specifyPowerFiles(options) == IF options.real THEN <<Same("PKEDIT")>> ELSE <<>>

specifyRestartFiles(options) ==
    DictUpdate(DictUpdate(<<Same("DIF3D")>>, specifyFluxFiles(options)),
               specifyGamsorOtherFiles(options))

\* filesToRetrieve.merge(...): a dict has no attribute merge.
specifyAllFiles(options) ==
    LET filesToRetrieve ==
            DictUpdate(DictUpdate(DictUpdate(<<>>, specifyGeomFiles(options)),
                                  specifyRestartFiles(options)),
                       specifyPowerFiles(options))
    IN  IF AndIn(GAMSOR_POWERCALC, options.energyDepoCalcMethodStep)
        THEN [err |-> "AttributeError", files |-> <<>>]
        ELSE [err |-> NoError, files |-> filesToRetrieve]

Returned(files) == [err |-> NoError, files |-> files]

\* Faulty variant of specifyOutputFilesToRetrieve: flux files win over
\* restart files.
specifyOutputFilesToRetrieve_FluxFirst(options) ==
    LET outputs == options.neutronicsOutputsToSave
        found == IF ALL \in outputs.words THEN specifyAllFiles(options)
                 ELSE IF FLUXFILES \in outputs.words
                      THEN Returned(specifyFluxFiles(options))
                 ELSE IF RESTARTFILES \in outputs.words
                      THEN Returned(specifyRestartFiles(options))
                 ELSE Returned(<<>>)
    IN  IF outputs.isNone THEN [err |-> "TypeError", files |-> <<>>]
        ELSE IF found.err # NoError THEN found
        ELSE Returned([i \in DOMAIN found.files |->
                          <<found.files[i][1], DictGet(found.files, found.files[i][1])>>])

\* Dif3dOptions._specifyOutputFilesToRetrieve: `x in None` raises TypeError;
\* an exception of the chosen function passes through; the list is built
\* by iterating the keys of the dict and looking each one up.
specifyOutputFilesToRetrieve(options) ==
    LET outputs == options.neutronicsOutputsToSave
        found == IF ALL \in outputs.words THEN specifyAllFiles(options)
                 ELSE IF RESTARTFILES \in outputs.words
                      THEN Returned(specifyRestartFiles(options))
                 ELSE IF FLUXFILES \in outputs.words
                      THEN Returned(specifyFluxFiles(options))
                 ELSE Returned(<<>>)
    IN  IF outputs.isNone THEN [err |-> "TypeError", files |-> <<>>]
        ELSE IF found.err # NoError THEN found
        ELSE Returned([i \in DOMAIN found.files |->
                          <<found.files[i][1], DictGet(found.files, found.files[i][1])>>])

Dif3dOptions ==
    [real : BOOLEAN, adjoint : BOOLEAN, nodal : BOOLEAN,
     kernelName : KernelNames,
     energyDepoCalcMethodStep : Texts(DepoWords),
     neutronicsOutputsToSave : Texts(OutputWords)]

InitFiles ==
    /\ fsOpts \in Dif3dOptions
    /\ fsCall = "none"
    /\ fsOut = <<>>
    /\ IoIdle
    /\ RdIdle
    /\ SoIdle
    /\ ExIdle
    /\ CsIdle
    /\ GeIdle

SpecifyAllFiles ==
    /\ fsCall = "none"
    /\ fsCall' = "specifyAllFiles"
    /\ fsOut' = specifyAllFiles(fsOpts)
    /\ UNCHANGED <<fsOpts, ioVars, rdVars, soVars, exVars, csVars, geVars>>

SpecifyRestartFiles ==
    /\ fsCall = "none"
    /\ fsCall' = "specifyRestartFiles"
    /\ fsOut' = Returned(specifyRestartFiles(fsOpts))
    /\ UNCHANGED <<fsOpts, ioVars, rdVars, soVars, exVars, csVars, geVars>>

SpecifyFluxFiles ==
    /\ fsCall = "none"
    /\ fsCall' = "specifyFluxFiles"
    /\ fsOut' = Returned(specifyFluxFiles(fsOpts))
    /\ UNCHANGED <<fsOpts, ioVars, rdVars, soVars, exVars, csVars, geVars>>

SpecifyOutputFilesToRetrieve ==
    /\ fsCall = "none"
    /\ fsCall' = "_specifyOutputFilesToRetrieve"
    /\ fsOut' = specifyOutputFilesToRetrieve(fsOpts)
    /\ UNCHANGED <<fsOpts, ioVars, rdVars, soVars, exVars, csVars, geVars>>

NextFiles ==
    \/ SpecifyAllFiles
    \/ SpecifyRestartFiles
    \/ SpecifyFluxFiles
    \/ SpecifyOutputFilesToRetrieve

SpecFiles == InitFiles /\ [][NextFiles]_vars

(***************************************************************************)
(* Claims on the file sets.                                                *)
(***************************************************************************)
Entries(d) == Range(d)
PowerStep == AndIn(GAMSOR_POWERCALC, fsOpts.energyDepoCalcMethodStep)

\* C22: specifyAllFiles never raises; what it returns holds every entry of
\* specifyGeomFiles, specifyRestartFiles and specifyPowerFiles, and with
\* '-step_3' in energyDepoCalcMethodStep also NPDINT, GPDINT and PWDINT.
C22_AllFiles ==
    fsCall = "specifyAllFiles" =>
        /\ fsOut.err = NoError
        /\ Entries(specifyGeomFiles(fsOpts)) \subseteq Entries(fsOut.files)
        /\ Entries(specifyRestartFiles(fsOpts)) \subseteq Entries(fsOut.files)
        /\ Entries(specifyPowerFiles(fsOpts)) \subseteq Entries(fsOut.files)
        /\ PowerStep => {"NPDINT", "GPDINT", "PWDINT"} \subseteq DictKeys(fsOut.files)

\* C22, the part that holds: without '-step_3' specifyAllFiles returns a
\* dict with every entry of the three functions and nothing else; with it,
\* the call ends in AttributeError.
C22_WithoutPowerStep ==
    fsCall = "specifyAllFiles" =>
        IF PowerStep
        THEN fsOut = [err |-> "AttributeError", files |-> <<>>]
        ELSE /\ fsOut.err = NoError
             /\ Entries(fsOut.files) =
                    Entries(specifyGeomFiles(fsOpts))
                        \cup Entries(specifyRestartFiles(fsOpts))
                        \cup Entries(specifyPowerFiles(fsOpts))
             /\ Cardinality(DictKeys(fsOut.files)) = Len(fsOut.files)

C22_Witness ==
    /\ fsCall = "specifyAllFiles"
    /\ PowerStep
    /\ fsOpts.real
    /\ fsOut.err = "AttributeError"

\* What the function chosen by neutronicsOutputsToSave gives.
Chosen ==
    LET words == fsOpts.neutronicsOutputsToSave.words
    IN  IF ALL \in words THEN specifyAllFiles(fsOpts)
        ELSE IF RESTARTFILES \in words THEN Returned(specifyRestartFiles(fsOpts))
        ELSE IF FLUXFILES \in words THEN Returned(specifyFluxFiles(fsOpts))
        ELSE Returned(<<>>)

\* C29: output-file selection priority.  For neutronicsOutputsToSave a
\* string, _specifyOutputFilesToRetrieve goes by the first of ALL, restart
\* files, flux files that the string contains: where that function returns
\* a dict, the list returned holds exactly its (origin, destination)
\* entries, each origin once; where it contains none of the three the list
\* is empty; an exception of the chosen function is not caught.
C29_SelectionPriority ==
    (fsCall = "_specifyOutputFilesToRetrieve"
        /\ ~fsOpts.neutronicsOutputsToSave.isNone) =>
        /\ fsOut.err = Chosen.err
        /\ Chosen.err = NoError =>
               /\ Entries(fsOut.files) = Entries(Chosen.files)
               /\ Len(fsOut.files) = Cardinality(Entries(Chosen.files))
               /\ \A i, j \in DOMAIN fsOut.files :
                      fsOut.files[i][1] = fsOut.files[j][1] => i = j
               /\ \A i \in DOMAIN fsOut.files : Len(fsOut.files[i]) = 2
        /\ (fsOpts.neutronicsOutputsToSave.words
                \cap {ALL, RESTARTFILES, FLUXFILES} = {}) =>
               fsOut = Returned(<<>>)

\* Restart and flux files are both asked for, with a case where the two
\* functions differ.
C29_Witness ==
    /\ fsCall = "_specifyOutputFilesToRetrieve"
    /\ fsOpts.neutronicsOutputsToSave.words = {RESTARTFILES, FLUXFILES}
    /\ fsOpts.real
    /\ fsOpts.nodal
    /\ fsOut.err = NoError
    /\ Entries(fsOut.files) = Entries(specifyRestartFiles(fsOpts))
    /\ Entries(fsOut.files) # Entries(specifyFluxFiles(fsOpts))


(***************************************************************************)
(* settings.py, defineSettingValidators: four queries, each a condition on *)
(* the case settings and a correction.  The inspector asks the user for    *)
(* each query whose condition holds and applies the correction on a yes;   *)
(* inspector._assignCS(key, value) sets one setting.                       *)
(***************************************************************************)
CONF_OPT_DIF3DNODAL == "DIF3D-Nodal"
CONF_OPT_DIF3DFD == "DIF3D-FD"
CONF_OPT_VARIANT == "VARIANT"
KERNELS == {CONF_OPT_DIF3DNODAL, CONF_OPT_DIF3DFD, CONF_OPT_VARIANT}
ScatterOrders == {"", "P1P0", "P3P3"}

CaseSettings ==
    [neutronicsKernel : KERNELS,
     adjointCalculationRequested : BOOLEAN,
     coarseMeshRebalance : -1 .. MaxRebalance,
     asympExtrapOfNodalCalc : -1 .. MaxRebalance,
     variantTransportAndScatterOrder : ScatterOrders,
     dif3dExeFound : BOOLEAN]

assignCS(settings, key, value) == [settings EXCEPT ![key] = value]

RebalanceQuery(c) ==
    (c.neutronicsKernel = CONF_OPT_DIF3DNODAL /\ c.adjointCalculationRequested)
        /\ c.coarseMeshRebalance > -1
AsympExtrapQuery(c) ==
    c.neutronicsKernel = CONF_OPT_DIF3DNODAL /\ c.asympExtrapOfNodalCalc = -1
ScatterOrderQuery(c) ==
    c.neutronicsKernel = CONF_OPT_VARIANT /\ c.variantTransportAndScatterOrder = ""
ExecutableQuery(c) == ~c.dif3dExeFound

InitSettings ==
    /\ cs \in CaseSettings
    /\ csFixed = {}
    /\ IoIdle
    /\ RdIdle
    /\ SoIdle
    /\ ExIdle
    /\ FsIdle
    /\ GeIdle

\* Faulty variant of CorrectRebalance: the rebalance is set to 0.
CorrectRebalance_ToZero ==
    /\ RebalanceQuery(cs)
    /\ cs' = assignCS(cs, "coarseMeshRebalance", 0)
    /\ csFixed' = csFixed \cup {"coarseMeshRebalance"}
    /\ UNCHANGED <<ioVars, rdVars, soVars, exVars, fsVars, geVars>>

CorrectRebalance ==
    /\ RebalanceQuery(cs)
    /\ cs' = assignCS(cs, "coarseMeshRebalance", -1)
    /\ csFixed' = csFixed \cup {"coarseMeshRebalance"}
    /\ UNCHANGED <<ioVars, rdVars, soVars, exVars, fsVars, geVars>>

CorrectAsympExtrap ==
    /\ AsympExtrapQuery(cs)
    /\ cs' = assignCS(cs, "asympExtrapOfNodalCalc", 0)
    /\ csFixed' = csFixed \cup {"asympExtrapOfNodalCalc"}
    /\ UNCHANGED <<ioVars, rdVars, soVars, exVars, fsVars, geVars>>

CorrectScatterOrder ==
    /\ ScatterOrderQuery(cs)
    /\ cs' = assignCS(cs, "variantTransportAndScatterOrder", "P3P3")
    /\ csFixed' = csFixed \cup {"variantTransportAndScatterOrder"}
    /\ UNCHANGED <<ioVars, rdVars, soVars, exVars, fsVars, geVars>>

\* inspector.NO_ACTION: the query is reported, no setting changes.
ReportExecutable ==
    /\ ExecutableQuery(cs)
    /\ "dif3dExePath" \notin csFixed
    /\ csFixed' = csFixed \cup {"dif3dExePath"}
    /\ UNCHANGED <<cs, ioVars, rdVars, soVars, exVars, fsVars, geVars>>

NextSettings ==
    \/ CorrectRebalance
    \/ CorrectAsympExtrap
    \/ CorrectScatterOrder
    \/ ReportExecutable

SpecSettings == InitSettings /\ [][NextSettings]_vars

(***************************************************************************)
(* Claim on the validators.                                                *)
(***************************************************************************)
QueryHolds(key, c) ==
    CASE key = "coarseMeshRebalance" -> RebalanceQuery(c)
      [] key = "asympExtrapOfNodalCalc" -> AsympExtrapQuery(c)
      [] key = "variantTransportAndScatterOrder" -> ScatterOrderQuery(c)
Correcting ==
    {"coarseMeshRebalance", "asympExtrapOfNodalCalc", "variantTransportAndScatterOrder"}

CorrectionSettles ==
    \A key \in Correcting :
        key \in csFixed' \ csFixed => ~QueryHolds(key, cs')
NoQueryRaised ==
    \A key \in Correcting : ~QueryHolds(key, cs) => ~QueryHolds(key, cs')

\* C28: the validators reach a fixpoint.  A correction makes the condition
\* of its own query false; no step makes the condition of a correcting
\* query true that was false; so a query that has been corrected never
\* fires again.
C28_Fixpoint ==
    /\ [](\A key \in csFixed \cap Correcting : ~QueryHolds(key, cs))
    /\ [][CorrectionSettles /\ NoQueryRaised]_vars

\* Two corrections were due and both have been applied.
C28_Witness ==
    /\ csFixed = {"coarseMeshRebalance", "asympExtrapOfNodalCalc"}
    /\ cs.coarseMeshRebalance = -1
    /\ cs.asympExtrapOfNodalCalc = 0
    /\ \A key \in Correcting : ~QueryHolds(key, cs)

(***************************************************************************)
(* inputWriters.py, HexGeom.makeNIP30.  An assembly is its ring and        *)
(* position (NoLocation for None) and the heights of its blocks, bottom    *)
(* up; block.getLocation() is the pair of the assembly's and the block's   *)
(* index.                                                                  *)
(***************************************************************************)
NoLocation == 0
Locations == {NoLocation, 1}
Heights == {1, 2}
BlockStacks == UNION {[1 .. n -> Heights] : n \in 0 .. MaxBlocksPerAssembly}
Assembly == [ring : Locations, pos : Locations, blocks : BlockStacks]
Cores == UNION {[1 .. n -> Assembly] : n \in 0 .. MaxAssemblies}

HexDatum(loc, ring, pos, bottom, top) ==
    [loc |-> loc, ring |-> ring, pos |-> pos, bottom |-> bottom, top |-> top]

\* The inner loop from block i on, with the values bottom and top have at
\* that point.
RECURSIVE StackBlocks(_, _, _, _, _)
StackBlocks(a, n, i, bottom, top) ==
    IF i > Len(a.blocks) THEN [err |-> NoError, hexes |-> <<>>]
    ELSE LET newTop == top + a.blocks[i]
         IN  IF a.ring = NoLocation \/ a.pos = NoLocation
             THEN [err |-> "ValueError", hexes |-> <<>>]
             ELSE LET rest == StackBlocks(a, n, i + 1, newTop, newTop)
                  IN  IF rest.err # NoError THEN rest
                      ELSE [err |-> NoError,
                            hexes |-> <<HexDatum(<<n, i>>, a.ring, a.pos, bottom, newTop)>>
                                          \o rest.hexes]

\* Faulty variant of makeNIP30From: bottom and top are not set back to 0
\* for the next assembly.
RECURSIVE makeNIP30From_NoReset(_, _, _)
makeNIP30From_NoReset(core, n, start) ==
    IF n > Len(core) THEN [err |-> NoError, hexes |-> <<>>]
    ELSE LET first == StackBlocks(core[n], n, 1, start, start)
             end == IF first.err = NoError /\ first.hexes # <<>>
                    THEN first.hexes[Len(first.hexes)].top ELSE start
             rest == makeNIP30From_NoReset(core, n + 1, end)
         IN  IF first.err # NoError THEN first
             ELSE IF rest.err # NoError THEN rest
             ELSE [err |-> NoError, hexes |-> first.hexes \o rest.hexes]

\* The outer loop from assembly n on; start is the 0.0 of lines 229-230.
RECURSIVE makeNIP30From(_, _, _)
makeNIP30From(core, n, start) ==
    IF n > Len(core) THEN [err |-> NoError, hexes |-> <<>>]
    ELSE LET first == StackBlocks(core[n], n, 1, start, start)
             rest == makeNIP30From(core, n + 1, start)
         IN  IF first.err # NoError THEN first
             ELSE IF rest.err # NoError THEN rest
             ELSE [err |-> NoError, hexes |-> first.hexes \o rest.hexes]

makeNIP30(core) == makeNIP30From(core, 1, 0)

InitGeom ==
    /\ assemblies \in Cores
    /\ hexes = NotCalled
    /\ IoIdle
    /\ RdIdle
    /\ SoIdle
    /\ ExIdle
    /\ FsIdle
    /\ CsIdle

MakeNIP30 ==
    /\ hexes = NotCalled
    /\ hexes' = makeNIP30(assemblies)
    /\ UNCHANGED <<assemblies, ioVars, rdVars, soVars, exVars, fsVars, csVars>>

NextGeom == MakeNIP30

SpecGeom == InitGeom /\ [][NextGeom]_vars

(***************************************************************************)
(* Claim on the hexagons.                                                  *)
(***************************************************************************)
RECURSIVE BlocksBefore(_, _)
BlocksBefore(core, n) ==
    IF n <= 1 THEN 0 ELSE BlocksBefore(core, n - 1) + Len(core[n - 1].blocks)
RECURSIVE HeightBelow(_, _)
HeightBelow(blocks, i) ==
    IF i <= 1 THEN 0 ELSE HeightBelow(blocks, i - 1) + blocks[i - 1]
BadLocation(a) ==
    Len(a.blocks) >= 1 /\ (a.ring = NoLocation \/ a.pos = NoLocation)
EntryOf(n, i) == hexes.hexes[BlocksBefore(assemblies, n) + i]

\* C30: axial stacking.  makeNIP30 raises ValueError and returns no list
\* exactly when some assembly with at least one block has ring or pos None.
\* Otherwise the list has one entry per block, assembly after assembly in
\* block order; in each assembly the first entry has bottom 0, every entry
\* has top = bottom + the block's height, and every next entry has the
\* previous entry's top as its bottom.
C30_AxialStacking ==
    hexes # NotCalled =>
        IF \E n \in DOMAIN assemblies : BadLocation(assemblies[n])
        THEN hexes = [err |-> "ValueError", hexes |-> <<>>]
        ELSE /\ hexes.err = NoError
             /\ Len(hexes.hexes) = BlocksBefore(assemblies, Len(assemblies) + 1)
             /\ \A n \in DOMAIN assemblies :
                    \A i \in DOMAIN assemblies[n].blocks :
                        /\ EntryOf(n, i).loc = <<n, i>>
                        /\ EntryOf(n, i).ring = assemblies[n].ring
                        /\ EntryOf(n, i).pos = assemblies[n].pos
                        /\ i = 1 => EntryOf(n, i).bottom = 0
                        /\ i > 1 => EntryOf(n, i).bottom = EntryOf(n, i - 1).top
                        /\ EntryOf(n, i).top =
                               EntryOf(n, i).bottom + assemblies[n].blocks[i]
                        /\ EntryOf(n, i).bottom =
                               HeightBelow(assemblies[n].blocks, i)

\* Two assemblies of two blocks each, of unequal heights.
C30_Witness ==
    /\ hexes # NotCalled
    /\ hexes.err = NoError
    /\ Len(assemblies) = 2
    /\ \A n \in DOMAIN assemblies :
           /\ Len(assemblies[n].blocks) = 2
           /\ assemblies[n].blocks[1] # assemblies[n].blocks[2]
    /\ Len(hexes.hexes) = 4
    /\ hexes.hexes[3].bottom = 0

====
